---- MODULE Spec2Model ----
(***************************************************************************)
(* A model of the PM2.5 person-exposure pipeline of geotiff_processor.py:  *)
(* the order-of-magnitude pixel classifier, the exposure engine and the    *)
(* per-asset pipeline process_asset_pair that calls both.                  *)
(*                                                                         *)
(* Raster samples are floating-point numbers.  A sample is modelled as a   *)
(* tagged value: NaN, +Inf, -Inf, or a finite fixed-point number counted   *)
(* in units of 1/Scale.  The inputs are drawn from ranges in which sums    *)
(* and products are exact, so rounding and overflow to Inf play no part.   *)
(***************************************************************************)
EXTENDS Integers, Sequences, FiniteSets, TLC

(***************************************************************************)
(* Bounds of the model.                                                    *)
(***************************************************************************)
\* longest array handed to the classifier on its own
MaxLen == 2
\* largest number of cells (rows * cols) of a raster file
MaxCells == 2

(***************************************************************************)
(* Floating-point samples.                                                 *)
(***************************************************************************)
\* units per 1.0: 1/2000 = 0.0005 is the finest sample the model draws
Scale == 2 * 1000

Fin(n) == [kind |-> "fin", val |-> n]
NaN == [kind |-> "nan", val |-> 0]
PosInf == [kind |-> "pinf", val |-> 0]
NegInf == [kind |-> "ninf", val |-> 0]

\* the literal n (a whole number) and the literal n/1000
Whole(n) == Fin(n * Scale)
Milli(n) == Fin((n * Scale) \div 1000)
\* the literal n/10000 (n a multiple of 5)
TenThousandth(n) == Fin((n * Scale) \div 10000)
Zero == Fin(0)

\* np.isfinite
isfinite(x) == x.kind = "fin"
isnan(x) == x.kind = "nan"

\* IEEE comparisons: every comparison with NaN is false
Lt(x, y) ==
    /\ ~isnan(x)
    /\ ~isnan(y)
    /\ \/ x.kind = "ninf" /\ y.kind # "ninf"
       \/ x.kind # "pinf" /\ y.kind = "pinf"
       \/ x.kind = "fin" /\ y.kind = "fin" /\ x.val < y.val
Eq(x, y) == ~isnan(x) /\ ~isnan(y) /\ x.kind = y.kind /\ x.val = y.val
Gt(x, y) == Lt(y, x)
Ge(x, y) == Lt(y, x) \/ Eq(x, y)

Abs(n) == IF n < 0 THEN -n ELSE n
Sign(x) ==
    CASE x.kind = "pinf" -> 1
      [] x.kind = "ninf" -> -1
      [] x.kind = "fin" -> (IF x.val > 0 THEN 1 ELSE IF x.val < 0 THEN -1 ELSE 0)
      [] OTHER -> 0

\* x * y: NaN is contagious, Inf * 0 is NaN, finite products are fixed-point
FMul(x, y) ==
    IF isnan(x) \/ isnan(y) THEN NaN
    ELSE IF ~isfinite(x) \/ ~isfinite(y)
         THEN (IF Sign(x) * Sign(y) = 0 THEN NaN
               ELSE IF Sign(x) * Sign(y) > 0 THEN PosInf ELSE NegInf)
         ELSE Fin(Sign(x) * Sign(y) * ((Abs(x.val) * Abs(y.val)) \div Scale))

\* x + y: NaN is contagious, Inf + -Inf is NaN
FAdd(x, y) ==
    IF isnan(x) \/ isnan(y) THEN NaN
    ELSE IF isfinite(x) /\ isfinite(y) THEN Fin(x.val + y.val)
    ELSE IF isfinite(x) THEN y
    ELSE IF isfinite(y) THEN x
    ELSE IF x.kind = y.kind THEN x ELSE NaN

FSub(x, y) ==
    FAdd(x, IF isfinite(y) THEN Fin(-y.val)
            ELSE IF y.kind = "pinf" THEN NegInf
            ELSE IF y.kind = "ninf" THEN PosInf ELSE NaN)

\* x / n for a count n >= 1 (n = 0 gives NaN, as 0.0/0 does)
FDivN(x, n) ==
    IF n = 0 THEN NaN
    ELSE IF isfinite(x) THEN Fin(Sign(x) * (Abs(x.val) \div n))
    ELSE x

\* integer square root, by bisection on lo*lo <= n < hi*hi
RECURSIVE ISqrtBetween(_, _, _)
ISqrtBetween(n, lo, hi) ==
    IF hi - lo <= 1 THEN lo
    ELSE LET mid == (lo + hi) \div 2
         IN IF mid * mid <= n THEN ISqrtBetween(n, mid, hi)
            ELSE ISqrtBetween(n, lo, mid)
ISqrt(n) == ISqrtBetween(n, 0, 46341)

\* sqrt(x): NaN below zero
FSqrt(x) ==
    IF isnan(x) \/ x.kind = "ninf" THEN NaN
    ELSE IF x.kind = "pinf" THEN PosInf
    ELSE IF x.val < 0 THEN NaN
    ELSE Fin(ISqrt(x.val * Scale))

(***************************************************************************)
(* Arrays.  A 2-D array is the sequence of its rows; boolean-mask indexing *)
(* and the reductions see it flattened, row after row.                     *)
(***************************************************************************)
RECURSIVE Flatten(_)
Flatten(a) == IF a = <<>> THEN <<>> ELSE Head(a) \o Flatten(Tail(a))

Shape(a) == <<Len(a), IF Len(a) = 0 THEN 0 ELSE Len(a[1])>>
Size(a) == Len(Flatten(a))
None == <<>>

(***************************************************************************)
(* Reductions over an array given as the sequence of its cells.            *)
(***************************************************************************)
RECURSIVE np_sum(_)
np_sum(a) == IF a = <<>> THEN Zero ELSE FAdd(np_sum(Tail(a)), Head(a))

\* np.max / np.min propagate NaN; the array is not empty
RECURSIVE np_max(_)
np_max(a) ==
    IF Len(a) = 1 THEN Head(a)
    ELSE LET m == np_max(Tail(a))
         IN IF isnan(Head(a)) \/ isnan(m) THEN NaN
            ELSE IF Gt(Head(a), m) THEN Head(a) ELSE m

RECURSIVE np_min(_)
np_min(a) ==
    IF Len(a) = 1 THEN Head(a)
    ELSE LET m == np_min(Tail(a))
         IN IF isnan(Head(a)) \/ isnan(m) THEN NaN
            ELSE IF Lt(Head(a), m) THEN Head(a) ELSE m

np_mean(a) == FDivN(np_sum(a), Len(a))

\* np.std: sqrt(mean(abs(x - mean(x)) ** 2))
np_std(a) ==
    LET m == np_mean(a)
        dev == [i \in 1..Len(a) |-> FSub(a[i], m)]
        sq == [i \in 1..Len(a) |-> FMul(dev[i], dev[i])]
    IN FSqrt(np_mean(sq))

(***************************************************************************)
(* count_pixels_by_order_of_magnitude                                      *)
(***************************************************************************)
ranges ==
    << [name |-> "0", min_val |-> Whole(0), max_val |-> Whole(0)],
       [name |-> "0.001-0.01", min_val |-> Milli(1), max_val |-> Milli(10)],
       [name |-> "0.01-0.1", min_val |-> Milli(10), max_val |-> Milli(100)],
       [name |-> "0.1-1", min_val |-> Milli(100), max_val |-> Whole(1)],
       [name |-> "1-10", min_val |-> Whole(1), max_val |-> Whole(10)],
       [name |-> "10-100", min_val |-> Whole(10), max_val |-> Whole(100)],
       [name |-> "100-1000", min_val |-> Whole(100), max_val |-> Whole(1000)],
       [name |-> "1000-10000", min_val |-> Whole(1000), max_val |-> Whole(10000)],
       [name |-> "10000+", min_val |-> Whole(10000), max_val |-> PosInf] >>

\* mutant: the np.isfinite test left out of the mask
valid_data_nonneg_only(data) == SelectSeq(Flatten(data), LAMBDA x : Ge(x, Zero))

\* data[np.isfinite(data) & (data >= 0)]
valid_data(data) == SelectSeq(Flatten(data), LAMBDA x : isfinite(x) /\ Ge(x, Zero))

\* valid_data[valid_data > 0]
non_zero_data(data) == SelectSeq(valid_data(data), LAMBDA x : Gt(x, Zero))

\* mutant: the bounds taken the other way round, (min_val, max_val]
InRange_closed_above(x, r) ==
    IF r.max_val = PosInf THEN Gt(x, r.min_val)
    ELSE Gt(x, r.min_val) /\ (Lt(x, r.max_val) \/ Eq(x, r.max_val))

\* mutant: the upper bound of a range never tested
InRange_no_upper_bound(x, r) == Ge(x, r.min_val)

\* the mask of one pass of the loop over ranges[1:]
InRange(x, r) ==
    IF r.max_val = PosInf THEN Ge(x, r.min_val)
    ELSE Ge(x, r.min_val) /\ Lt(x, r.max_val)

\* mutant: everything below the first range counted as zero
zero_count_below_first_range(data) ==
    Len(SelectSeq(valid_data(data), LAMBDA x : Lt(x, ranges[2].min_val)))

\* counts['0'] = int(np.sum(valid_data == 0))
zero_count(data) == Len(SelectSeq(valid_data(data), LAMBDA x : Eq(x, Zero)))

\* mutant: the loop starts one range too late, ranges[2:]
count_pixels_loop_from_third(data) ==
    LET rest == SubSeq(ranges, 3, Len(ranges))
        loop == [n \in {rest[i].name : i \in 1..Len(rest)} |->
                    LET r == rest[CHOOSE i \in 1..Len(rest) : rest[i].name = n]
                    IN Len(SelectSeq(non_zero_data(data), LAMBDA x : InRange(x, r)))]
    IN loop @@ ("0" :> zero_count(data))

\* the dictionary returned: '0' first, then one key per range of ranges[1:]
count_pixels_by_order_of_magnitude(data) ==
    LET rest == SubSeq(ranges, 2, Len(ranges))
        loop == [n \in {rest[i].name : i \in 1..Len(rest)} |->
                    LET r == rest[CHOOSE i \in 1..Len(rest) : rest[i].name = n]
                    IN Len(SelectSeq(non_zero_data(data), LAMBDA x : InRange(x, r)))]
    IN loop @@ ("0" :> zero_count(data))

(***************************************************************************)
(* compute_person_exposure_raster                                          *)
(***************************************************************************)
\* mutant: only the non-finite samples replaced, negative ones kept
clean_finite_only(a) ==
    [i \in 1..Len(a) |->
        [j \in 1..Len(a[i]) |-> IF isfinite(a[i][j]) THEN a[i][j] ELSE Zero]]

\* np.where(np.isfinite(a) & (a >= 0), a, 0): a new array, a is not written
clean(a) ==
    [i \in 1..Len(a) |->
        [j \in 1..Len(a[i]) |->
            IF isfinite(a[i][j]) /\ Ge(a[i][j], Zero) THEN a[i][j] ELSE Zero]]

\* mutant: the product clamped at 10
multiply_clamped(c, p) ==
    [i \in 1..Len(c) |->
        [j \in 1..Len(c[i]) |->
            IF Gt(FMul(c[i][j], p[i][j]), Whole(10)) THEN Whole(10)
            ELSE FMul(c[i][j], p[i][j])]]

\* conc_clean * pop_clean, element by element
multiply(c, p) ==
    [i \in 1..Len(c) |-> [j \in 1..Len(c[i]) |-> FMul(c[i][j], p[i][j])]]

\* person_exposure_raster[person_exposure_raster > 0]
valid_exposure(raster) == SelectSeq(Flatten(raster), LAMBDA x : Gt(x, Zero))

\* mutant: non_zero_mean taken without the guard on an empty selection
exposure_statistics_unguarded(raster) ==
    [total_person_exposure |-> np_sum(Flatten(raster)),
     mean_person_exposure |-> np_mean(Flatten(raster)),
     max_person_exposure |-> np_max(Flatten(raster)),
     min_person_exposure |-> np_min(Flatten(raster)),
     std_person_exposure |-> np_std(Flatten(raster)),
     non_zero_pixels |-> Len(SelectSeq(Flatten(raster), LAMBDA x : Gt(x, Zero))),
     non_zero_mean |-> np_mean(valid_exposure(raster))]

\* the exposure_stats dictionary
exposure_statistics(raster) ==
    [total_person_exposure |-> np_sum(Flatten(raster)),
     mean_person_exposure |-> np_mean(Flatten(raster)),
     max_person_exposure |-> np_max(Flatten(raster)),
     min_person_exposure |-> np_min(Flatten(raster)),
     std_person_exposure |-> np_std(Flatten(raster)),
     non_zero_pixels |-> Len(SelectSeq(Flatten(raster), LAMBDA x : Gt(x, Zero))),
     non_zero_mean |-> IF Len(valid_exposure(raster)) > 0
                       THEN np_mean(valid_exposure(raster)) ELSE Zero]

\* mutant: the invalid samples zeroed in place, in the arguments themselves
args_cleaned_in_place(conc, pop) ==
    [conc_data |-> clean(conc), pop_data |-> clean(pop)]

\* what the two argument arrays hold when the call returns: every statement
\* of the function builds a new array, none assigns into an argument
args_after_compute(conc, pop) == [conc_data |-> conc, pop_data |-> pop]

\* the returned pair (person_exposure_raster, exposure_stats), with the
\* argument arrays as the call leaves them
compute_person_exposure_raster(conc, pop) ==
    LET raster == multiply(clean(conc), clean(pop))
    IN [person_exposure_raster |-> raster,
        exposure_stats |-> exposure_statistics(raster),
        args |-> args_after_compute(conc, pop)]

(***************************************************************************)
(* process_asset_pair: the per-asset pipeline.                             *)
(*                                                                         *)
(* A GeoTIFF file is modelled by what rasterio reads from it: band 1, the  *)
(* six coefficients (a, b, c, d, e, f) of its affine transform, in whole   *)
(* units, and its CRS.  Its name is modelled by the asset id the filename  *)
(* pattern extracts from it (None when the pattern does not match).        *)
(***************************************************************************)
VARIABLES
    pc,                     \* where the call of process_asset_pair stands
    conc_file, pop_file,    \* the two files the call is given
    save_exposure_tiff,     \* its save_exposure_tiff argument, once read
    conc_data, pop_data,    \* src.read(1) of each file
    conc_transform, pop_transform,
    conc_shape, pop_shape,
    person_exposure_raster, exposure_stats,
    conc_counts, pop_counts, exposure_counts,
    calls,                  \* the functions called so far, in order
    disk,                   \* the files written under output_dir
    result,                 \* the dictionary returned
    error,                  \* the exception raised
    cpc, data, counts       \* a call of the classifier on its own

pairVars ==
    <<pc, conc_file, pop_file, save_exposure_tiff, conc_data, pop_data,
      conc_transform, pop_transform, conc_shape, pop_shape,
      person_exposure_raster, exposure_stats, conc_counts, pop_counts,
      exposure_counts, calls, disk, result, error>>
classifyVars == <<cpc, data, counts>>

VARIABLES
    epc,                    \* where batch_analyze_edge_patterns stands
    edge_input,             \* the files it finds and its analyze_both
    edge_i,                 \* the index of the file analysed next
    edge_results            \* its results dictionary

edgeVars == <<epc, edge_input, edge_i, edge_results>>

VARIABLES
    spc,                    \* where the stripe decision stands
    stripe_shape,           \* rows, cols of the raster scanned
    patterns                \* the patterns dictionary of the detector

stripeVars == <<spc, stripe_shape, patterns>>

VARIABLES
    apc,                    \* where main stands around create_assets_json
    asset_results,          \* the records handed to create_assets_json
    assets_json,            \* the structure it returns
    assets_file,            \* the content of assets.json
    vpc,                    \* where display_exposure_statistics stands
    printed,                \* the sections it printed
    viewer_error            \* the exception it caught

statsVars ==
    <<apc, asset_results, assets_json, assets_file, vpc, printed, viewer_error>>

VARIABLES
    program,                \* the script that is run
    input_dir,              \* the files of input_geotiffs/<country>, by name
    processed_dir,          \* the rasters of processed/, by name
    output_files,           \* the files of overlays/ and raw_data/
    assets_on_disk,         \* the content of assets.json, None when absent
    bpc,                    \* where batch_process_assets stands
    existing_assets, pairs,
    b_i,                    \* the number of pairs the loop has been through
    processed_assets, processed_count, skipped_count,
    invoked,                \* the pairs process_asset_pair was called with
    reported,               \* the assets reported as failed
    returned,               \* the structure batch_process_assets returns
    tasks,                  \* the overlay or export tasks run, by asset index
    history                 \* what the earlier runs of the processor returned

batchVars ==
    <<program, input_dir, processed_dir, output_files, assets_on_disk, bpc,
      existing_assets, pairs, b_i, processed_assets, processed_count,
      skipped_count, invoked, reported, returned, tasks, history>>

VARIABLES
    dpc,                    \* where main of a parallel driver stands
    driver,                 \* the driver script that is run
    d_assets,               \* assets_data['assets'] as loaded
    futures,                \* the state of the future of each asset submitted
    d_missing,              \* the assets whose input rasters are not on disk
    finished,               \* the futures completed and not yet yielded, in
                            \* the order of completion
    snapshot,               \* the futures as_completed found finished when
                            \* it was called and has not yet yielded
    in_completion_order,    \* as_completed has yielded the futures in the
                            \* order of their completion so far
    d_results, d_errors,    \* the lists results and errors of main
    written,                \* the assets list written to assets.json
    main_error              \* the exception main ends with

poolVars ==
    <<dpc, driver, d_assets, d_missing, futures, finished, snapshot,
      in_completion_order, d_results, d_errors, written, main_error>>

VARIABLES
    rpc,                    \* where the caller of the computation stands
    r_conc, r_pop,          \* the two arrays the caller holds
    r_returns               \* what each call on them returned

repeatVars == <<rpc, r_conc, r_pop, r_returns>>

VARIABLES
    hpc,                    \* where the request handler stands
    request,                \* the path of the request line
    response                \* the status and the body sent

serverVars == <<hpc, request, response>>

VARIABLES
    gpc,                    \* where the overlay generator stands
    generator,              \* the generator that is run
    g_raster,               \* the exposure raster it reads
    g_scale,                \* its scale_factor
    pixel_data              \* the entries it builds

georefVars == <<gpc, generator, g_raster, g_scale, pixel_data>>

lateVars == <<poolVars, repeatVars, serverVars, georefVars>>

vars ==
    <<pairVars, classifyVars, edgeVars, stripeVars, statsVars, batchVars, lateVars>>
nonPairVars == <<classifyVars, edgeVars, stripeVars, statsVars, batchVars, lateVars>>
nonClassifyVars == <<pairVars, edgeVars, stripeVars, statsVars, batchVars, lateVars>>
nonEdgeVars == <<pairVars, classifyVars, stripeVars, statsVars, batchVars, lateVars>>
nonStripeVars == <<pairVars, classifyVars, edgeVars, statsVars, batchVars, lateVars>>
nonStatsVars == <<pairVars, classifyVars, edgeVars, stripeVars, batchVars, lateVars>>
nonBatchVars == <<pairVars, classifyVars, edgeVars, stripeVars, statsVars, lateVars>>
earlyVars == <<pairVars, classifyVars, edgeVars, stripeVars, statsVars, batchVars>>
nonPoolVars == <<earlyVars, repeatVars, serverVars, georefVars>>
nonRepeatVars == <<earlyVars, poolVars, serverVars, georefVars>>
nonServerVars == <<earlyVars, poolVars, repeatVars, georefVars>>
nonGeorefVars == <<earlyVars, poolVars, repeatVars, serverVars>>

\* the variables of a part of the program that is not running
EdgeIdle == epc = "unused" /\ edge_input = None /\ edge_i = 0 /\ edge_results = None
StripeIdle == spc = "unused" /\ stripe_shape = None /\ patterns = None
StatsIdle ==
    /\ apc = "unused" /\ asset_results = None /\ assets_json = None
    /\ assets_file = None /\ vpc = "unused" /\ printed = None /\ viewer_error = ""
BatchIdle ==
    /\ program = "none" /\ input_dir = None /\ processed_dir = None
    /\ output_files = {} /\ assets_on_disk = None /\ bpc = "unused"
    /\ existing_assets = None /\ pairs = None /\ b_i = 0
    /\ processed_assets = None /\ processed_count = 0 /\ skipped_count = 0
    /\ invoked = None /\ reported = None /\ returned = None /\ tasks = None
    /\ history = None
PoolIdle ==
    /\ dpc = "unused" /\ driver = "none" /\ d_assets = None /\ futures = None
    /\ d_missing = {} /\ finished = None /\ snapshot = {}
    /\ in_completion_order = TRUE /\ d_results = None /\ d_errors = None
    /\ written = None /\ main_error = ""
RepeatIdle == rpc = "unused" /\ r_conc = None /\ r_pop = None /\ r_returns = None
ServerIdle == hpc = "unused" /\ request = None /\ response = None
GeorefIdle ==
    /\ gpc = "unused" /\ generator = "none" /\ g_raster = None
    /\ g_scale = 0 /\ pixel_data = None
LateIdle == PoolIdle /\ RepeatIdle /\ ServerIdle /\ GeorefIdle

SCRIPT_VERSION == "1.1.0"
Country == "BRA"
AssetId == "1566447"
OtherAssetId == "1566448"
Crs == "EPSG:4326"
\* the asset id of a filename the pattern does not match; no exception
NoMatch == ""
NoError == ""

\* north-up transform of the concentration files: a, b, c, d, e, f
BaseTransform == <<1, 0, 10, 0, -1, 20>>
\* the same transform with coefficient k changed
Shifted(k) == [BaseTransform EXCEPT ![k] = @ + 1]
PopTransforms == {BaseTransform} \cup {Shifted(k) : k \in 1..Len(BaseTransform)}

\* samples of a raster file: invalid ones of each sort, zero, and a positive
FileValues == {NaN, PosInf, Whole(-1), Whole(0), Whole(2)}
Shapes == {s \in (1..MaxCells) \X (1..MaxCells) : s[1] * s[2] <= MaxCells}
Arrays(V, shapes) == UNION {[1..s[1] -> [1..s[2] -> V]] : s \in shapes}

RasterFile(id, t, d) ==
    [asset_id |-> id, readable |-> TRUE, transform |-> t, data |-> d, crs |-> Crs]
\* a file rasterio.open cannot read
UnreadableFile ==
    [asset_id |-> AssetId, readable |-> FALSE, transform |-> None, data |-> None,
     crs |-> Crs]

\* the pair of the worked example: [[10,0],[0,5]] and [[2,3],[4,0]]
ScenarioConc == << <<Whole(10), Whole(0)>>, <<Whole(0), Whole(5)>> >>
ScenarioPop == << <<Whole(2), Whole(3)>>, <<Whole(4), Whole(0)>> >>

ConcFiles ==
    {RasterFile(AssetId, BaseTransform, d) : d \in Arrays(FileValues, Shapes)}
    \cup {RasterFile(AssetId, BaseTransform, ScenarioConc), UnreadableFile,
          RasterFile(NoMatch, BaseTransform, ScenarioConc)}
\* Population files: every array under the transform of the concentration
\* file, and under each other transform one array of every shape (the
\* alignment check reads the transform and the shape, never the cells).
PopFiles ==
    {RasterFile(AssetId, BaseTransform, d) : d \in Arrays(FileValues, Shapes)}
    \cup {RasterFile(AssetId, t, d) :
            t \in PopTransforms, d \in Arrays({Whole(2)}, Shapes)}
    \cup {RasterFile(AssetId, BaseTransform, ScenarioPop), UnreadableFile,
          RasterFile(OtherAssetId, BaseTransform, ScenarioPop)}

\* mutant: only the shapes compared
spatially_aligned_shape_only(ct, pt, cs, ps) == cs = ps

\* conc_transform == pop_transform and conc_shape == pop_shape
spatially_aligned(ct, pt, cs, ps) == ct = pt /\ cs = ps

\* rasterio.transform.xy at the centre of pixel (rows // 2, cols // 2), in
\* halves of a unit: <<2 * lon, 2 * lat>>
get_asset_centerpoint(t, shape) ==
    LET center_row == shape[1] \div 2
        center_col == shape[2] \div 2
    IN <<t[1] * (2 * center_col + 1) + t[2] * (2 * center_row + 1) + 2 * t[3],
         t[4] * (2 * center_col + 1) + t[5] * (2 * center_row + 1) + 2 * t[6]>>

\* src.bounds of a north-up dataset
dataset_bounds(t, shape) ==
    [left |-> t[3], bottom |-> t[6] + t[5] * shape[1],
     right |-> t[3] + t[1] * shape[2], top |-> t[6]]

exposure_filename_of(country, id) == <<country, id, "person_exposure.tiff">>

PairInit ==
    /\ pc = "idle"
    /\ conc_file = None /\ pop_file = None
    /\ save_exposure_tiff = None
    /\ conc_data = None /\ pop_data = None
    /\ conc_transform = None /\ pop_transform = None
    /\ conc_shape = None /\ pop_shape = None
    /\ person_exposure_raster = None /\ exposure_stats = None
    /\ conc_counts = None /\ pop_counts = None /\ exposure_counts = None
    /\ calls = <<>>
    /\ disk = {}
    /\ result = None
    /\ error = NoError

ClassifyIdle == cpc = "unused" /\ data = None /\ counts = None

\* the exception, if any, that lines 244-272 raise for this pair of files
load_error(cf, pf) ==
    IF cf.asset_id = NoMatch \/ pf.asset_id = NoMatch
        THEN "ValueError: filename doesn't match expected pattern"
    ELSE IF cf.asset_id # pf.asset_id THEN "ValueError: asset IDs don't match"
    ELSE IF ~cf.readable \/ ~pf.readable THEN "RasterioIOError"
    ELSE IF ~spatially_aligned(cf.transform, pf.transform,
                               Shape(cf.data), Shape(pf.data))
        THEN "ValueError: rasters are not spatially aligned"
    ELSE NoError

\* lines 240-272: parse the names, read both files, verify the alignment
Load(cf, pf) ==
    /\ conc_file' = cf /\ pop_file' = pf
    /\ conc_data' = (IF cf.asset_id # NoMatch /\ pf.asset_id = cf.asset_id /\ cf.readable
                     THEN cf.data ELSE None)
    /\ conc_transform' = (IF conc_data' # None THEN cf.transform ELSE None)
    /\ conc_shape' = (IF conc_data' # None THEN Shape(cf.data) ELSE None)
    /\ pop_data' = (IF conc_data' # None /\ pf.readable THEN pf.data ELSE None)
    /\ pop_transform' = (IF pop_data' # None THEN pf.transform ELSE None)
    /\ pop_shape' = (IF pop_data' # None THEN Shape(pf.data) ELSE None)
    /\ error' = load_error(cf, pf)
    /\ pc' = (IF error' = NoError THEN "aligned" ELSE "raised")
    /\ UNCHANGED <<save_exposure_tiff, person_exposure_raster, exposure_stats,
                   conc_counts, pop_counts, exposure_counts, calls, disk, result>>
    /\ UNCHANGED nonPairVars

\* a call of process_asset_pair on some pair of files
LoadPair == pc = "idle" /\ \E cf \in ConcFiles, pf \in PopFiles : Load(cf, pf)

\* lines 275-278: the centerpoint, then the exposure raster and its statistics
ComputeExposure ==
    /\ pc = "aligned"
    /\ LET r == compute_person_exposure_raster(conc_data, pop_data)
       IN /\ person_exposure_raster' = r.person_exposure_raster
          /\ exposure_stats' = r.exposure_stats
          /\ conc_data' = r.args.conc_data
          /\ pop_data' = r.args.pop_data
    /\ calls' = calls \o <<"get_asset_centerpoint", "compute_person_exposure_raster">>
    /\ pc' = "computed"
    /\ UNCHANGED <<conc_file, pop_file, save_exposure_tiff, conc_transform,
                   pop_transform, conc_shape, pop_shape, conc_counts, pop_counts,
                   exposure_counts, disk, result, error>>
    /\ UNCHANGED nonPairVars

\* lines 281-283: the three histograms
CountPixels ==
    /\ pc = "computed"
    /\ conc_counts' = count_pixels_by_order_of_magnitude(conc_data)
    /\ pop_counts' = count_pixels_by_order_of_magnitude(pop_data)
    /\ exposure_counts' = count_pixels_by_order_of_magnitude(person_exposure_raster)
    /\ calls' = calls \o <<"count_pixels_by_order_of_magnitude",
                           "count_pixels_by_order_of_magnitude",
                           "count_pixels_by_order_of_magnitude">>
    /\ pc' = "counted"
    /\ UNCHANGED <<conc_file, pop_file, save_exposure_tiff, conc_data, pop_data,
                   conc_transform, pop_transform, conc_shape, pop_shape,
                   person_exposure_raster, exposure_stats, disk, result, error>>
    /\ UNCHANGED nonPairVars

\* lines 286-296: write the exposure GeoTIFF if asked to.  The argument
\* save_exposure_tiff is first read here, so its value is drawn here.
Save(save) ==
    /\ save_exposure_tiff' = save
    /\ IF save
       THEN /\ disk' = disk \cup
                    {[name |-> exposure_filename_of(Country, conc_file.asset_id),
                      data |-> person_exposure_raster,
                      transform |-> conc_transform, crs |-> conc_file.crs]}
            /\ calls' = calls \o <<"save_person_exposure_geotiff">>
       ELSE UNCHANGED <<disk, calls>>
    /\ pc' = "saved"
    /\ UNCHANGED <<conc_file, pop_file, conc_data, pop_data, conc_transform,
                   pop_transform, conc_shape, pop_shape, person_exposure_raster,
                   exposure_stats, conc_counts, pop_counts, exposure_counts,
                   result, error>>
    /\ UNCHANGED nonPairVars

SaveExposure == pc = "counted" /\ \E save \in BOOLEAN : Save(save)

\* lines 299-325: the asset record
Return ==
    /\ pc = "saved"
    /\ result' =
        [asset_id |-> conc_file.asset_id,
         country |-> Country,
         center |-> get_asset_centerpoint(conc_transform, conc_shape),
         total_pixels |-> Size(conc_data),
         crs |-> conc_file.crs,
         bounds |-> dataset_bounds(conc_transform, conc_shape),
         concentration_pixel_counts |-> conc_counts,
         population_pixel_counts |-> pop_counts,
         person_exposure_pixel_counts |-> exposure_counts,
         person_exposure_stats |-> exposure_stats,
         script_version |-> SCRIPT_VERSION,
         files |-> [concentration |-> <<conc_file.asset_id, "v2.tiff">>,
                    population |-> <<pop_file.asset_id, "pop-v2.tiff">>,
                    person_exposure |->
                        IF save_exposure_tiff
                        THEN exposure_filename_of(Country, conc_file.asset_id)
                        ELSE None]]
    /\ pc' = "returned"
    /\ UNCHANGED <<conc_file, pop_file, save_exposure_tiff, conc_data, pop_data,
                   conc_transform, pop_transform, conc_shape, pop_shape,
                   person_exposure_raster, exposure_stats, conc_counts, pop_counts,
                   exposure_counts, calls, disk, error>>
    /\ UNCHANGED nonPairVars

Init ==
    /\ PairInit /\ ClassifyIdle /\ EdgeIdle /\ StripeIdle /\ StatsIdle /\ BatchIdle
    /\ LateIdle

Next ==
    \/ LoadPair
    \/ ComputeExposure
    \/ CountPixels
    \/ SaveExposure
    \/ Return

Spec == Init /\ [][Next]_vars

(***************************************************************************)
(* The classifier called on its own, on arrays with a sample at and next   *)
(* to every bucket boundary.                                               *)
(***************************************************************************)
ClassifyValues ==
    {NaN, PosInf, NegInf, Whole(-1), Whole(0),
     TenThousandth(5), Milli(1), Milli(5), Milli(10), Milli(100),
     Whole(1), Whole(10), Whole(50), Whole(100), Whole(1000),
     Fin(Whole(10000).val - 1), Whole(10000), Whole(50000)}

\* the worked example [0, 0.0005, 0.005, 50, 50000]
ScenarioData ==
    << <<Whole(0), TenThousandth(5), Milli(5), Whole(50), Whole(50000)>> >>

ClassifyInputs ==
    UNION {[1..1 -> [1..n -> ClassifyValues]] : n \in 0..MaxLen} \cup {ScenarioData}

ClassifyInit ==
    /\ cpc = "call"
    /\ data \in ClassifyInputs
    /\ counts = None
    /\ PairInit
    /\ EdgeIdle
    /\ StripeIdle
    /\ StatsIdle
    /\ BatchIdle
    /\ LateIdle

Classify ==
    /\ cpc = "call"
    /\ counts' = count_pixels_by_order_of_magnitude(data)
    /\ cpc' = "returned"
    /\ UNCHANGED data
    /\ UNCHANGED nonClassifyVars

ClassifyNext == Classify

SpecClassify == ClassifyInit /\ [][ClassifyNext]_vars

(***************************************************************************)
(* Properties of process_asset_pair and of the exposure engine (Spec).     *)
(***************************************************************************)
AfterCompute == {"computed", "counted", "saved", "returned"}
AfterCount == {"counted", "saved", "returned"}

\* the two files given to the call are readable rasters that differ in
\* shape or in a coefficient of the transform
Misaligned ==
    /\ pc # "idle"
    /\ conc_file.readable /\ pop_file.readable
    /\ \/ Shape(conc_file.data) # Shape(pop_file.data)
       \/ \E k \in 1..Len(BaseTransform) :
            conc_file.transform[k] # pop_file.transform[k]

NamesMatch ==
    /\ conc_file.asset_id # NoMatch
    /\ conc_file.asset_id = pop_file.asset_id

\* C1: a pair of rasters that differ in shape or in any coefficient of the
\* geotransform makes the call raise before the exposure engine, the
\* classifier or the GeoTIFF writer is called: nothing is computed, nothing
\* is written and no record is returned.
C1_MisalignedPairRaisesFirst ==
    Misaligned =>
        /\ pc = "raised"
        /\ NamesMatch => error = "ValueError: rasters are not spatially aligned"
        /\ \A i \in 1..Len(calls) :
              calls[i] \notin {"compute_person_exposure_raster",
                               "count_pixels_by_order_of_magnitude",
                               "save_person_exposure_geotiff"}
        /\ person_exposure_raster = None /\ exposure_stats = None
        /\ conc_counts = None /\ pop_counts = None /\ exposure_counts = None
        /\ disk = {}
        /\ result = None

\* a call that raised on two rasters of one shape whose transforms differ
C1_Witness ==
    /\ Misaligned
    /\ NamesMatch
    /\ pc = "raised"
    /\ Shape(conc_file.data) = Shape(pop_file.data)
    /\ conc_file.transform # pop_file.transform

\* the sample the engine multiplies: the value itself when it is finite and
\* not negative, zero otherwise
Cleaned(x) == IF x.kind = "fin" /\ x.val >= 0 THEN x ELSE Fin(0)

\* C2: every cell of the exposure raster is the product of the cleaned
\* concentration and the cleaned population of that cell, unclamped; the
\* worked example [[10,0],[0,5]] x [[2,3],[4,0]] gives [[20,0],[0,0]].
C2_ExposureIsProductOfCleaned ==
    pc \in AfterCompute =>
        /\ Shape(person_exposure_raster) = Shape(conc_file.data)
        /\ \A i \in 1..Len(conc_file.data) :
              \A j \in 1..Len(conc_file.data[i]) :
                 person_exposure_raster[i][j] =
                    FMul(Cleaned(conc_file.data[i][j]), Cleaned(pop_file.data[i][j]))
        /\ (conc_file.data = ScenarioConc /\ pop_file.data = ScenarioPop) =>
              person_exposure_raster = << <<Whole(20), Whole(0)>>,
                                          <<Whole(0), Whole(0)>> >>

\* the worked example, computed
C2_Witness ==
    /\ pc = "computed"
    /\ conc_file.data = ScenarioConc
    /\ pop_file.data = ScenarioPop
    /\ person_exposure_raster[1][1] = Whole(20)

\* C3: whatever the inputs hold, no cell of the exposure raster is NaN or
\* negative, and neither is total_person_exposure or min_person_exposure.
C3_ExposureNeverNaNOrNegative ==
    pc \in AfterCompute =>
        /\ Len(SelectSeq(Flatten(person_exposure_raster),
                         LAMBDA x : isnan(x) \/ Lt(x, Zero))) = 0
        /\ ~isnan(exposure_stats.total_person_exposure)
        /\ ~Lt(exposure_stats.total_person_exposure, Zero)
        /\ ~isnan(exposure_stats.min_person_exposure)
        /\ ~Lt(exposure_stats.min_person_exposure, Zero)

\* computed from a concentration with a NaN cell and a negative cell and a
\* population with an infinite cell and a negative cell
C3_Witness ==
    /\ pc = "computed"
    /\ Len(SelectSeq(Flatten(conc_file.data), LAMBDA x : isnan(x))) > 0
    /\ Len(SelectSeq(Flatten(conc_file.data), LAMBDA x : Lt(x, Zero))) > 0
    /\ Len(SelectSeq(Flatten(pop_file.data), LAMBDA x : x = PosInf)) > 0
    /\ Len(SelectSeq(Flatten(pop_file.data), LAMBDA x : Lt(x, Zero))) > 0

\* C4: the exposure engine leaves its two argument arrays as they were
\* read, invalid cells included, so the histograms of the concentration and
\* of the population are those of the data as read.
C4_InputsUnchangedByCompute ==
    /\ pc \in AfterCompute =>
          conc_data = conc_file.data /\ pop_data = pop_file.data
    /\ pc \in AfterCount =>
          /\ conc_counts = count_pixels_by_order_of_magnitude(conc_file.data)
          /\ pop_counts = count_pixels_by_order_of_magnitude(pop_file.data)

\* histograms taken of arrays that still hold a NaN and a negative cell
C4_Witness ==
    /\ pc = "counted"
    /\ Len(SelectSeq(Flatten(conc_data), LAMBDA x : isnan(x))) > 0
    /\ Len(SelectSeq(Flatten(pop_data), LAMBDA x : Lt(x, Zero))) > 0
    /\ person_exposure_raster # None

\* the sum of the values of the finite cells a[lo..]
RECURSIVE SumFrom(_, _)
SumFrom(a, lo) == IF lo > Len(a) THEN 0 ELSE a[lo].val + SumFrom(a, lo + 1)

Positive(a) == SelectSeq(a, LAMBDA x : x.kind = "fin" /\ x.val > 0)

\* C5: total is the sum of all cells, max and min are taken over all
\* cells, non_zero_pixels counts the cells above zero, non_zero_mean is the
\* mean of those cells, and exactly 0.0 when there is none, the call
\* returning normally all the same.
C5_StatisticsOfExposure ==
    pc \in AfterCompute =>
        LET cells == Flatten(person_exposure_raster)
            st == exposure_stats
        IN /\ error = NoError
           /\ st.total_person_exposure = Fin(SumFrom(cells, 1))
           /\ \E i \in 1..Len(cells) : cells[i] = st.max_person_exposure
           /\ \A i \in 1..Len(cells) : cells[i].val <= st.max_person_exposure.val
           /\ \E i \in 1..Len(cells) : cells[i] = st.min_person_exposure
           /\ \A i \in 1..Len(cells) : cells[i].val >= st.min_person_exposure.val
           /\ st.non_zero_pixels = Len(Positive(cells))
           /\ st.non_zero_mean =
                 IF Len(Positive(cells)) = 0 THEN Fin(0)
                 ELSE Fin(SumFrom(Positive(cells), 1) \div Len(Positive(cells)))

\* statistics of an exposure raster without a positive cell, next to a zero
\* population cell under a valid concentration
C5_Witness ==
    /\ pc = "computed"
    /\ exposure_stats.non_zero_pixels = 0
    /\ exposure_stats.non_zero_mean = Fin(0)
    /\ exposure_stats.total_person_exposure = Fin(0)
    /\ Len(Flatten(person_exposure_raster)) > 1

(***************************************************************************)
(* Properties of count_pixels_by_order_of_magnitude (SpecClassify).        *)
(***************************************************************************)
NineLabels ==
    {"0", "0.001-0.01", "0.01-0.1", "0.1-1", "1-10", "10-100", "100-1000",
     "1000-10000", "10000+"}

RECURSIVE SumOver(_, _)
SumOver(f, S) ==
    IF S = {} THEN 0
    ELSE LET l == CHOOSE l \in S : TRUE IN f[l] + SumOver(f, S \ {l})
\* the sum of all bucket counts of a histogram
SumCounts(f) == SumOver(f, DOMAIN f)

FiniteNonNegative(x) == x.kind = "fin" /\ x.val >= 0
\* strictly between 0 and 0.001
InGap(x) == x.kind = "fin" /\ x.val > 0 /\ x.val < Scale \div 1000

\* C6: the histogram has exactly the nine labels as keys, each with a
\* count in Nat, also for an empty array and for an array of negative and
\* non-finite cells only (all counts 0).
C6_NineLabelsAlways ==
    cpc = "returned" =>
        /\ DOMAIN counts = NineLabels
        /\ \A l \in DOMAIN counts : counts[l] \in Nat
        /\ Len(SelectSeq(Flatten(data), FiniteNonNegative)) = 0 =>
              \A l \in DOMAIN counts : counts[l] = 0

\* the histogram of the empty array
C6_Witness ==
    /\ cpc = "returned"
    /\ Flatten(data) = <<>>
    /\ DOMAIN counts = NineLabels
    /\ \A l \in NineLabels : counts[l] = 0

\* C7: the bucket counts sum to the number of finite, non-negative cells
\* minus the number of cells strictly between 0 and 0.001.
C7_SumIsValidMinusGap ==
    cpc = "returned" =>
        SumCounts(counts) =
            Len(SelectSeq(Flatten(data), FiniteNonNegative))
                - Len(SelectSeq(Flatten(data), InGap))

\* a histogram of an array with a cell in the gap and a cell in a bucket
C7_Witness ==
    /\ cpc = "returned"
    /\ Len(SelectSeq(Flatten(data), InGap)) > 0
    /\ Len(SelectSeq(Flatten(data), LAMBDA x : Ge(x, Whole(1)))) > 0
    /\ SumCounts(counts) = 1

\* C8, as stated: the bucket counts sum to the number of finite,
\* non-negative cells.
C8_SumIsValidCount ==
    cpc = "returned" =>
        SumCounts(counts) = Len(SelectSeq(Flatten(data), FiniteNonNegative))

\* C8, amended: the bucket counts sum to the number of finite cells that
\* are exactly 0 or at least 0.001; negative cells, non-finite cells and the
\* cells strictly between 0 and 0.001 are the only cells left out.
C8_SumIsZeroOrBucketed ==
    cpc = "returned" =>
        /\ SumCounts(counts) =
              Len(SelectSeq(Flatten(data),
                      LAMBDA x : x.kind = "fin" /\ (x.val = 0 \/ x.val >= Scale \div 1000)))
        /\ Len(Flatten(data)) - SumCounts(counts) =
              Len(SelectSeq(Flatten(data),
                      LAMBDA x : x.kind # "fin" \/ x.val < 0 \/ InGap(x)))

\* a histogram that leaves out a finite, non-negative cell
C8_Witness ==
    /\ cpc = "returned"
    /\ Len(SelectSeq(Flatten(data), InGap)) > 0
    /\ SumCounts(counts) < Len(SelectSeq(Flatten(data), FiniteNonNegative))

\* the one bucket of a finite, non-negative value, "none" in the gap; the
\* bounds in thousandths
BucketOf(x) ==
    LET m == x.val \div (Scale \div 1000)
    IN IF x.val = 0 THEN "0"
       ELSE IF m < 1 THEN "none"
       ELSE IF m < 10 THEN "0.001-0.01"
       ELSE IF m < 100 THEN "0.01-0.1"
       ELSE IF m < 1000 THEN "0.1-1"
       ELSE IF m < 10000 THEN "1-10"
       ELSE IF m < 100000 THEN "10-100"
       ELSE IF m < 1000000 THEN "100-1000"
       ELSE IF m < 10000000 THEN "1000-10000"
       ELSE "10000+"

\* C9: every finite, non-negative value is counted in at most one bucket:
\* 0 in "0" only, lo <= v < hi in "lo-hi" only (a boundary value goes to the
\* bucket that starts there), v >= 10000 in "10000+" only, 0 < v < 0.001 in
\* none.
C9_EachValueInItsBucket ==
    cpc = "returned" =>
        \A l \in NineLabels :
            counts[l] = Len(SelectSeq(Flatten(data),
                                LAMBDA x : FiniteNonNegative(x) /\ BucketOf(x) = l))

\* the boundary values 0.01 and 10000, each in the bucket that starts there
C9_Witness ==
    /\ cpc = "returned"
    /\ Flatten(data) = <<Milli(10), Whole(10000)>>
    /\ counts["0.01-0.1"] = 1 /\ counts["0.001-0.01"] = 0
    /\ counts["10000+"] = 1 /\ counts["1000-10000"] = 0

\* C10, as stated: of [0, 0.0005, 0.005, 50, 50000], 0.005 is counted in
\* "0.001-0.01", 50 in "10-100", 50000 in "10000+", 0.0005 nowhere, and all
\* bucket counts sum to 3.
C10_ScenarioSumsToThree ==
    (cpc = "returned" /\ data = ScenarioData) =>
        /\ counts["0.001-0.01"] = 1
        /\ counts["10-100"] = 1
        /\ counts["10000+"] = 1
        /\ SumCounts(counts) = 3

\* C10, amended: the same three cells in the same three buckets, 0.0005
\* nowhere, and all bucket counts sum to 4, the exact zero being counted in
\* "0"; the buckets other than "0" sum to 3.
C10_ScenarioSumsToFour ==
    (cpc = "returned" /\ data = ScenarioData) =>
        /\ counts["0.001-0.01"] = 1
        /\ counts["10-100"] = 1
        /\ counts["10000+"] = 1
        /\ counts["0"] = 1
        /\ SumCounts(counts) = 4
        /\ SumOver(counts, NineLabels \ {"0"}) = 3

\* the histogram of the worked example
C10_Witness ==
    /\ cpc = "returned"
    /\ data = ScenarioData
    /\ counts["10-100"] = 1
    /\ SumCounts(counts) = Len(Flatten(data)) - 1

(***************************************************************************)
(* edge_pattern_analyzer.py: detect_edge_patterns.                         *)
(*                                                                         *)
(* Rows and columns are numbered from 1 here and from 0 in the code: the   *)
(* loop variables i and j keep the code's values and index the array at    *)
(* i + 1 and j + 1.  Counts, extents and flags are the code's values.      *)
(***************************************************************************)
\* largest side of the rasters whose cells are drawn freely
MaxEdgeDim == 3
\* the stripe rasters have sides StripeFloor .. StripeFloor + MaxStripeExtra
MaxStripeExtra == 2
\* largest side of the square rasters
MaxSquare == 22

min(a, b) == IF a <= b THEN a ELSE b
max(a, b) == IF a >= b THEN a ELSE b

\* x <= y on floats: false when either is NaN
Le(x, y) == Lt(x, y) \/ Eq(x, y)

\* a row test that asks for cells strictly below the threshold
row_all_below(a, i, threshold) ==
    \A j \in 0..(Shape(a)[2] - 1) : Lt(a[i + 1][j + 1], threshold)

\* np.all(data[i, :] <= threshold) and np.all(data[:, j] <= threshold)
row_all_zero(a, i, threshold) ==
    \A j \in 0..(Shape(a)[2] - 1) : Le(a[i + 1][j + 1], threshold)
col_all_zero(a, j, threshold) ==
    \A i \in 0..(Shape(a)[1] - 1) : Le(a[i + 1][j + 1], threshold)

\* a scan that keeps going after a row that is not zero
RECURSIVE top_loop_no_break(_, _, _, _)
top_loop_no_break(a, threshold, i, count) ==
    IF i >= Shape(a)[1] THEN count
    ELSE top_loop_no_break(a, threshold, i + 1,
                           IF row_all_zero(a, i, threshold) THEN i + 1 ELSE count)

\* for i in range(rows): the value of patterns['top_zero_rows'] at the end
RECURSIVE top_loop(_, _, _, _)
top_loop(a, threshold, i, count) ==
    IF i >= Shape(a)[1] THEN count
    ELSE IF row_all_zero(a, i, threshold) THEN top_loop(a, threshold, i + 1, i + 1)
    ELSE count

\* for i in range(rows - 1, -1, -1)
RECURSIVE bottom_loop(_, _, _, _)
bottom_loop(a, threshold, i, count) ==
    IF i < 0 THEN count
    ELSE IF row_all_zero(a, i, threshold)
         THEN bottom_loop(a, threshold, i - 1, Shape(a)[1] - i)
    ELSE count

\* for j in range(cols)
RECURSIVE left_loop(_, _, _, _)
left_loop(a, threshold, j, count) ==
    IF j >= Shape(a)[2] THEN count
    ELSE IF col_all_zero(a, j, threshold) THEN left_loop(a, threshold, j + 1, j + 1)
    ELSE count

\* for j in range(cols - 1, -1, -1)
RECURSIVE right_loop(_, _, _, _)
right_loop(a, threshold, j, count) ==
    IF j < 0 THEN count
    ELSE IF col_all_zero(a, j, threshold)
         THEN right_loop(a, threshold, j - 1, Shape(a)[2] - j)
    ELSE count

\* the patterns dictionary after the four scans, the flags still False
edge_counts(a, threshold) ==
    [top_zero_rows |-> top_loop(a, threshold, 0, 0),
     bottom_zero_rows |-> bottom_loop(a, threshold, Shape(a)[1] - 1, 0),
     left_zero_cols |-> left_loop(a, threshold, 0, 0),
     right_zero_cols |-> right_loop(a, threshold, Shape(a)[2] - 1, 0),
     top_zero_stripe |-> FALSE,
     bottom_zero_stripe |-> FALSE,
     left_zero_stripe |-> FALSE,
     right_zero_stripe |-> FALSE]

\* the first argument of max(10, ...): the least stripe threshold
StripeFloor == 10

\* max(10, min(rows, cols) * 0.01), counted in hundredths.  The product
\* n * 0.01 is the double nearest to n / 100: it is the whole number n / 100
\* when 100 divides n and lies strictly between two whole numbers when not,
\* so a whole count exceeds it exactly when 100 * count exceeds n.
min_stripe_threshold(rows, cols) == max(StripeFloor * 100, min(rows, cols))

\* a threshold that ignores the size of the raster
exceeds_floor_only(count, rows, cols) == count > StripeFloor
\* a comparison that flags a count equal to the threshold
exceeds_or_equals(count, rows, cols) ==
    100 * count >= min_stripe_threshold(rows, cols)

\* patterns[...] > min_stripe_threshold
exceeds(count, rows, cols) == 100 * count > min_stripe_threshold(rows, cols)

\* the four assignments of the stripe flags
stripe_flags(p, rows, cols) ==
    [p EXCEPT !.top_zero_stripe = exceeds(p.top_zero_rows, rows, cols),
              !.bottom_zero_stripe = exceeds(p.bottom_zero_rows, rows, cols),
              !.left_zero_stripe = exceeds(p.left_zero_cols, rows, cols),
              !.right_zero_stripe = exceeds(p.right_zero_cols, rows, cols)]

detect_edge_patterns(a, threshold) ==
    stripe_flags(edge_counts(a, threshold), Shape(a)[1], Shape(a)[2])

(***************************************************************************)
(* edge_pattern_analyzer.py: analyze_concentration_file.                   *)
(***************************************************************************)
\* np.sum(data == 0) and np.sum(data > 0)
zero_pixels(a) == Len(SelectSeq(Flatten(a), LAMBDA x : Eq(x, Zero)))
positive_pixels(a) == Len(SelectSeq(Flatten(a), LAMBDA x : Gt(x, Zero)))

\* an extent taken over the cells that are not negative
where_not_negative(a) ==
    {ij \in (0..(Shape(a)[1] - 1)) \X (0..(Shape(a)[2] - 1)) :
        Ge(a[ij[1] + 1][ij[2] + 1], Zero)}

\* np.where(data > 0): the (row, col) indices of the positive cells
where_positive(a) ==
    {ij \in (0..(Shape(a)[1] - 1)) \X (0..(Shape(a)[2] - 1)) :
        Gt(a[ij[1] + 1][ij[2] + 1], Zero)}

\* the largest index taken for the smallest
index_largest(S) == CHOOSE x \in S : \A y \in S : x >= y

\* np.min and np.max of a non-empty set of indices
index_min(S) == CHOOSE x \in S : \A y \in S : x <= y
index_max(S) == CHOOSE x \in S : \A y \in S : x >= y

data_extent_of(a) ==
    IF positive_pixels(a) > 0
    THEN [min_row |-> index_min({ij[1] : ij \in where_positive(a)}),
          max_row |-> index_max({ij[1] : ij \in where_positive(a)}),
          min_col |-> index_min({ij[2] : ij \in where_positive(a)}),
          max_col |-> index_max({ij[2] : ij \in where_positive(a)})]
    ELSE [min_row |-> -1, max_row |-> -1, min_col |-> -1, max_col |-> -1]

\* reach flags that compare the far edges with the size, not the last index
reaches_edges_to_size(a, extent) ==
    IF positive_pixels(a) > 0
    THEN [reaches_top |-> extent.min_row = 0,
          reaches_bottom |-> extent.max_row = Shape(a)[1],
          reaches_left |-> extent.min_col = 0,
          reaches_right |-> extent.max_col = Shape(a)[2]]
    ELSE [reaches_top |-> FALSE, reaches_bottom |-> FALSE,
          reaches_left |-> FALSE, reaches_right |-> FALSE]

reaches_edges_of(a, extent) ==
    IF positive_pixels(a) > 0
    THEN [reaches_top |-> extent.min_row = 0,
          reaches_bottom |-> extent.max_row = Shape(a)[1] - 1,
          reaches_left |-> extent.min_col = 0,
          reaches_right |-> extent.max_col = Shape(a)[2] - 1]
    ELSE [reaches_top |-> FALSE, reaches_bottom |-> FALSE,
          reaches_left |-> FALSE, reaches_right |-> FALSE]

\* a flag raised by the row stripes alone
suspicious_rows_only(p) == p.top_zero_stripe \/ p.bottom_zero_stripe

\* bool(top or bottom or left or right)
suspicious_patterns_of(p) ==
    \/ p.top_zero_stripe
    \/ p.bottom_zero_stripe
    \/ p.left_zero_stripe
    \/ p.right_zero_stripe

\* the message of the exception rasterio.open raises
OpenFailed == "RasterioIOError"

analyze_concentration_file(f, country, asset_id) ==
    IF ~f.readable
    THEN [country |-> country, asset_id |-> asset_id,
          file_path |-> <<country, f.asset_id>>, error |-> OpenFailed]
    ELSE LET a == f.data
             edge_patterns == detect_edge_patterns(a, Zero)
             data_extent == data_extent_of(a)
         IN [country |-> country,
             asset_id |-> asset_id,
             file_path |-> <<country, f.asset_id>>,
             shape |-> Shape(a),
             total_pixels |-> Size(a),
             zero_pixels |-> zero_pixels(a),
             positive_pixels |-> positive_pixels(a),
             zero_percentage |-> Fin((zero_pixels(a) * 100 * Scale) \div Size(a)),
             data_extent |-> data_extent,
             reaches_edges |-> reaches_edges_of(a, data_extent),
             edge_patterns |-> edge_patterns,
             suspicious_patterns |-> suspicious_patterns_of(edge_patterns)]

(***************************************************************************)
(* batch_analyze_edge_patterns over one country directory.  The directory  *)
(* is given by its sorted concentration files and its sorted population    *)
(* files; each step of the model is one iteration of one of the loops.     *)
(***************************************************************************)
\* a raster that is zero but for the cells of P, which hold v
EdgeRaster(rows, cols, P, v) ==
    [i \in 1..rows |-> [j \in 1..cols |-> IF <<i, j>> \in P THEN v ELSE Zero]]

\* what a cell that is not zero holds: a positive, a negative or a NaN
EdgeCellValues == {Whole(2), Whole(-1), NaN}

\* the sets of at most two cells of a raster
FewCells(rows, cols) ==
    {{}} \cup {{p, q} : p, q \in (1..rows) \X (1..cols)}

SmallRasters ==
    UNION {{EdgeRaster(r, c, P, v) : P \in FewCells(r, c), v \in EdgeCellValues} :
           r \in 1..MaxEdgeDim, c \in 1..MaxEdgeDim}

\* rasters whose sides are at and just above the least stripe threshold,
\* all zero or with one positive cell on or next to an edge
StripeSides == StripeFloor..(StripeFloor + MaxStripeExtra)
StripeRasters ==
    UNION {{EdgeRaster(r, c, P, Whole(2)) :
               P \in {{}} \cup {{<<i, j>>} : i \in {1, r - 1, r}, j \in {1, c - 1, c}}} :
           r \in StripeSides, c \in StripeSides}

\* square rasters with one cell that is not zero, in the first row and column
SquareRasters ==
    {EdgeRaster(n, n, {<<1, 1>>}, v) :
        n \in (MaxSquare - 1)..MaxSquare, v \in EdgeCellValues}

\* rasters that are zero but for a positive cell and a negative cell
MixedRasters ==
    UNION {{[i \in 1..r |-> [j \in 1..c |->
                IF <<i, j>> = p THEN Whole(2)
                ELSE IF <<i, j>> = q THEN Whole(-1) ELSE Zero]] :
               p \in (1..r) \X (1..c), q \in (1..r) \X (1..c)} :
           r \in 1..MaxEdgeDim, c \in 1..MaxEdgeDim}

EdgeRasters == SmallRasters \cup StripeRasters \cup SquareRasters \cup MixedRasters

EdgeFiles ==
    {RasterFile(AssetId, BaseTransform, d) : d \in EdgeRasters} \cup {UnreadableFile}

\* the files of the directories that hold more than one file
BatchRasters ==
    {EdgeRaster(StripeFloor + 1, StripeFloor + 1, {}, Zero),
     EdgeRaster(2, 2, {<<1, 2>>}, Whole(2))}
BatchFiles(id) ==
    {RasterFile(id, BaseTransform, d) : d \in BatchRasters}
        \cup {[UnreadableFile EXCEPT !.asset_id = id]}

EdgeBatches ==
    {[analyze_both |-> b, conc_files |-> <<>>, pop_files |-> <<>>] : b \in BOOLEAN}
    \cup {[analyze_both |-> b, conc_files |-> <<f>>, pop_files |-> <<>>] :
            b \in BOOLEAN, f \in EdgeFiles}
    \cup {[analyze_both |-> b, conc_files |-> <<f, g>>, pop_files |-> <<h>>] :
            b \in BOOLEAN, f \in BatchFiles(AssetId), g \in BatchFiles(OtherAssetId),
            h \in BatchFiles(AssetId)}

\* where the loops stand once i files of a list are done
edge_phase(input, phase, i) ==
    IF phase = "concentration" /\ i < Len(input.conc_files) THEN "concentration"
    ELSE IF phase = "concentration" /\ input.analyze_both /\ Len(input.pop_files) > 0
         THEN "population"
    ELSE IF phase = "population" /\ i < Len(input.pop_files) THEN "population"
    ELSE "returned"

EdgeInit ==
    /\ epc = "start"
    /\ edge_input \in EdgeBatches
    /\ edge_i = 0
    /\ edge_results = None
    /\ PairInit
    /\ ClassifyIdle
    /\ StripeIdle
    /\ StatsIdle
    /\ BatchIdle
    /\ LateIdle

\* results = {'concentration': [], 'population': []} and the listing
EdgeStart ==
    /\ epc = "start"
    /\ edge_results' = [concentration |-> <<>>, population |-> <<>>]
    /\ edge_i' = 0
    /\ epc' = edge_phase(edge_input, "concentration", 0)
    /\ UNCHANGED edge_input
    /\ UNCHANGED nonEdgeVars

\* one iteration of a loop over the files of one type
AnalyzeFile(phase, files) ==
    LET f == files[edge_i + 1]
        analysed == analyze_concentration_file(f, Country, f.asset_id)
        record == analysed @@ ("file_type" :> phase)
        more == edge_phase(edge_input, phase, edge_i + 1)
    IN /\ edge_results' = [edge_results EXCEPT ![phase] = Append(@, record)]
       /\ edge_i' = IF more = phase THEN edge_i + 1 ELSE 0
       /\ epc' = more
       /\ UNCHANGED edge_input
       /\ UNCHANGED nonEdgeVars

AnalyzeConcentration ==
    epc = "concentration" /\ AnalyzeFile("concentration", edge_input.conc_files)

AnalyzePopulation ==
    epc = "population" /\ AnalyzeFile("population", edge_input.pop_files)

EdgeNext ==
    \/ EdgeStart
    \/ AnalyzeConcentration
    \/ AnalyzePopulation

SpecEdge == EdgeInit /\ [][EdgeNext]_vars

(***************************************************************************)
(* The stripe decision of detect_edge_patterns on its own: it reads the    *)
(* four counts and the shape, not the cells, so it is run here on counts   *)
(* and shapes of rasters too large to be written out cell by cell.         *)
(***************************************************************************)
\* largest count drawn next to the thresholds
MaxStripeCount == 13

\* sides at which 0.01 * min(rows, cols) is below, at and above the floor
StripeDims ==
    {StripeFloor + 1} \cup {100 * StripeFloor + d : d \in {0, 1, 100, 101, 200, 300}}

StripeCounts(side) ==
    {n \in {0} \cup ((StripeFloor - 1)..MaxStripeCount) : n < side} \cup {side}

\* the counts the four scans can leave for a raster of this shape: all
\* full when every row is zero, and otherwise short of the row or column
\* that stopped the scans
ScannedCounts(rows, cols) ==
    {p \in [top_zero_rows : StripeCounts(rows), bottom_zero_rows : StripeCounts(rows),
            left_zero_cols : StripeCounts(cols), right_zero_cols : StripeCounts(cols),
            top_zero_stripe : {FALSE}, bottom_zero_stripe : {FALSE},
            left_zero_stripe : {FALSE}, right_zero_stripe : {FALSE}] :
        \/ /\ p.top_zero_rows = rows /\ p.bottom_zero_rows = rows
           /\ p.left_zero_cols = cols /\ p.right_zero_cols = cols
        \/ /\ p.top_zero_rows + p.bottom_zero_rows < rows
           /\ p.left_zero_cols + p.right_zero_cols < cols}

StripeInit ==
    /\ spc = "scanned"
    /\ stripe_shape \in StripeDims \X StripeDims
    /\ patterns \in ScannedCounts(stripe_shape[1], stripe_shape[2])
    /\ PairInit
    /\ ClassifyIdle
    /\ EdgeIdle
    /\ StatsIdle
    /\ BatchIdle
    /\ LateIdle

FlagStripes ==
    /\ spc = "scanned"
    /\ patterns' = stripe_flags(patterns, stripe_shape[1], stripe_shape[2])
    /\ spc' = "flagged"
    /\ UNCHANGED stripe_shape
    /\ UNCHANGED nonStripeVars

StripeNext == FlagStripes

SpecStripe == StripeInit /\ [][StripeNext]_vars

(***************************************************************************)
(* Properties of the edge analysis (SpecEdge, SpecStripe).                 *)
(***************************************************************************)
\* the files analysed so far, each with the record appended for it
EdgeAnalysed ==
    IF epc \in {"unused", "start"} THEN {}
    ELSE {<<edge_input.conc_files[k], edge_results.concentration[k]>> :
             k \in 1..Len(edge_results.concentration)}
         \cup {<<edge_input.pop_files[k], edge_results.population[k]>> :
                  k \in 1..Len(edge_results.population)}

\* the readable rasters analysed so far: <<cells, record>>
RastersAnalysed == {<<fr[1].data, fr[2]>> : fr \in {x \in EdgeAnalysed : x[1].readable}}

\* row i / column j (numbered from 1) holds no cell above the threshold 0
ZeroRow(a, i) == \A j \in 1..Shape(a)[2] : Le(a[i][j], Zero)
ZeroCol(a, j) == \A i \in 1..Shape(a)[1] : Le(a[i][j], Zero)

\* the length of the maximal run of zero rows / columns from each edge
TopRun(a) ==
    CHOOSE n \in 0..Shape(a)[1] :
        /\ \A i \in 1..n : ZeroRow(a, i)
        /\ n = Shape(a)[1] \/ ~ZeroRow(a, n + 1)
BottomRun(a) ==
    CHOOSE n \in 0..Shape(a)[1] :
        /\ \A i \in (Shape(a)[1] - n + 1)..Shape(a)[1] : ZeroRow(a, i)
        /\ n = Shape(a)[1] \/ ~ZeroRow(a, Shape(a)[1] - n)
LeftRun(a) ==
    CHOOSE n \in 0..Shape(a)[2] :
        /\ \A j \in 1..n : ZeroCol(a, j)
        /\ n = Shape(a)[2] \/ ~ZeroCol(a, n + 1)
RightRun(a) ==
    CHOOSE n \in 0..Shape(a)[2] :
        /\ \A j \in (Shape(a)[2] - n + 1)..Shape(a)[2] : ZeroCol(a, j)
        /\ n = Shape(a)[2] \/ ~ZeroCol(a, Shape(a)[2] - n)

\* C11: each of the four counts of detect_edge_patterns is the length of
\* the maximal run of zero rows or columns that starts at its edge; a zero
\* row or column further in is not counted
C11_CountsAreMaximalRuns ==
    \A ar \in RastersAnalysed :
        /\ ar[2].edge_patterns.top_zero_rows = TopRun(ar[1])
        /\ ar[2].edge_patterns.bottom_zero_rows = BottomRun(ar[1])
        /\ ar[2].edge_patterns.left_zero_cols = LeftRun(ar[1])
        /\ ar[2].edge_patterns.right_zero_cols = RightRun(ar[1])

\* a raster analysed whose second row is zero between two rows that are not
C11_Witness ==
    \E ar \in RastersAnalysed :
        /\ Shape(ar[1])[1] = 3
        /\ ~ZeroRow(ar[1], 1) /\ ZeroRow(ar[1], 2) /\ ~ZeroRow(ar[1], 3)
        /\ ar[2].edge_patterns.top_zero_rows = 0
        /\ ar[2].edge_patterns.bottom_zero_rows = 0

\* count > max(10, 0.01 * m), in whole numbers
AboveStripeThreshold(count, m) == count > 10 /\ 100 * count > m

\* C12: a stripe flag is true if and only if the count of its edge is
\* strictly greater than max(10, 0.01 * min(rows, cols)); a count equal to
\* the threshold is not flagged
C12_FlagIffCountAboveThreshold ==
    spc = "flagged" =>
        LET m == min(stripe_shape[1], stripe_shape[2])
        IN /\ patterns.top_zero_stripe = AboveStripeThreshold(patterns.top_zero_rows, m)
           /\ patterns.bottom_zero_stripe
                  = AboveStripeThreshold(patterns.bottom_zero_rows, m)
           /\ patterns.left_zero_stripe = AboveStripeThreshold(patterns.left_zero_cols, m)
           /\ patterns.right_zero_stripe
                  = AboveStripeThreshold(patterns.right_zero_cols, m)

\* 10 zero rows at the top of a raster whose smaller side is at most 1000,
\* not flagged, beside a longer run on the left that is
C12_Witness ==
    /\ spc = "flagged"
    /\ min(stripe_shape[1], stripe_shape[2]) <= 1000
    /\ patterns.top_zero_rows = 10
    /\ ~patterns.top_zero_stripe
    /\ patterns.left_zero_cols = 11
    /\ patterns.left_zero_stripe

\* every cell of the raster is 0
AllZero(a) == \A i \in 1..Shape(a)[1] : \A j \in 1..Shape(a)[2] : Eq(a[i][j], Zero)

\* the report of an all-zero raster: full counts, every flag raised
FullStripes(a, r) ==
    /\ r.edge_patterns.top_zero_rows = Shape(a)[1]
    /\ r.edge_patterns.bottom_zero_rows = Shape(a)[1]
    /\ r.edge_patterns.left_zero_cols = Shape(a)[2]
    /\ r.edge_patterns.right_zero_cols = Shape(a)[2]
    /\ r.edge_patterns.top_zero_stripe
    /\ r.edge_patterns.bottom_zero_stripe
    /\ r.edge_patterns.left_zero_stripe
    /\ r.edge_patterns.right_zero_stripe
    /\ r.suspicious_patterns

\* max(10, 0.01 * min(rows, cols)) <= n and < n, in whole numbers
StripeThresholdAtMost(a, n) ==
    10 <= n /\ min(Shape(a)[1], Shape(a)[2]) <= 100 * n
StripeThresholdBelow(a, n) ==
    10 < n /\ min(Shape(a)[1], Shape(a)[2]) < 100 * n

\* C13 as stated: an all-zero raster whose stripe threshold is at most rows
\* and at most cols is reported with full counts, all four stripe flags and
\* suspicious_patterns
C13_AllZeroAtThresholdFlagged ==
    \A ar \in RastersAnalysed :
        /\ AllZero(ar[1])
        /\ StripeThresholdAtMost(ar[1], Shape(ar[1])[1])
        /\ StripeThresholdAtMost(ar[1], Shape(ar[1])[2])
        => FullStripes(ar[1], ar[2])

\* C13: an all-zero raster whose stripe threshold is strictly below rows
\* and strictly below cols is reported with full counts, all four stripe
\* flags and suspicious_patterns
C13_AllZeroAboveThresholdFlagged ==
    \A ar \in RastersAnalysed :
        /\ AllZero(ar[1])
        /\ StripeThresholdBelow(ar[1], Shape(ar[1])[1])
        /\ StripeThresholdBelow(ar[1], Shape(ar[1])[2])
        => FullStripes(ar[1], ar[2])

\* an all-zero raster of 11 rows and 12 columns analysed
C13_Witness ==
    \E ar \in RastersAnalysed :
        /\ AllZero(ar[1])
        /\ Shape(ar[1]) = <<11, 12>>
        /\ FullStripes(ar[1], ar[2])

\* the cells of the raster that are not 0 (a NaN is not 0)
NonZeroCells(a) ==
    {ij \in (1..Shape(a)[1]) \X (1..Shape(a)[2]) : ~Eq(a[ij[1]][ij[2]], Zero)}

\* the report of a raster whose data is its first cell alone
DataAtOriginOnly(r) ==
    /\ r.edge_patterns.top_zero_rows = 0
    /\ r.edge_patterns.left_zero_cols = 0
    /\ r.data_extent = [min_row |-> 0, max_row |-> 0, min_col |-> 0, max_col |-> 0]
    /\ r.reaches_edges.reaches_top
    /\ r.reaches_edges.reaches_left
    /\ ~r.reaches_edges.reaches_bottom
    /\ ~r.reaches_edges.reaches_right

\* a square raster of side above 20
LargeSquare(a) == Shape(a)[1] > 20 /\ Shape(a)[1] = Shape(a)[2]

\* C14 as stated: an N x N raster, N > 20, whose only non-zero cell is at
\* (0,0) is reported with no zero rows at the top, none on the left, the
\* extent {0,0,0,0}, reaching the top and the left only
C14_NonZeroOriginReported ==
    \A ar \in RastersAnalysed :
        LargeSquare(ar[1]) /\ NonZeroCells(ar[1]) = {<<1, 1>>}
        => DataAtOriginOnly(ar[2])

\* C14: an N x N raster, N > 20, whose only non-zero cell is at (0,0) and
\* is strictly positive is reported with no zero rows at the top, none on
\* the left, the extent {0,0,0,0}, reaching the top and the left only
C14_PositiveOriginReported ==
    \A ar \in RastersAnalysed :
        /\ LargeSquare(ar[1])
        /\ NonZeroCells(ar[1]) = {<<1, 1>>}
        /\ Gt(ar[1][1][1], Zero)
        => DataAtOriginOnly(ar[2])

\* a 21 x 21 raster analysed whose first cell alone is positive
C14_Witness ==
    \E ar \in RastersAnalysed :
        /\ Shape(ar[1]) = <<21, 21>>
        /\ NonZeroCells(ar[1]) = {<<1, 1>>}
        /\ Gt(ar[1][1][1], Zero)
        /\ DataAtOriginOnly(ar[2])

\* the cells strictly greater than 0, numbered as the code numbers them
PositiveCells(a) ==
    {ij \in (0..(Shape(a)[1] - 1)) \X (0..(Shape(a)[2] - 1)) :
        Gt(a[ij[1] + 1][ij[2] + 1], Zero)}

\* box is the smallest box of rows and columns that holds every cell of S
BoundingBox(S, box) ==
    /\ \A ij \in S : /\ box.min_row <= ij[1] /\ ij[1] <= box.max_row
                     /\ box.min_col <= ij[2] /\ ij[2] <= box.max_col
    /\ \E ij \in S : ij[1] = box.min_row
    /\ \E ij \in S : ij[1] = box.max_row
    /\ \E ij \in S : ij[2] = box.min_col
    /\ \E ij \in S : ij[2] = box.max_col

Sentinel == [min_row |-> -1, max_row |-> -1, min_col |-> -1, max_col |-> -1]

\* C15: data_extent is the bounding box of the cells strictly greater than
\* 0 and a reach flag is true exactly when the box touches its edge; with
\* no positive cell the extent is {-1,-1,-1,-1}, the four flags are false,
\* and the record is a normal record, not an error record
C15_ExtentIsBoxOfPositiveCells ==
    \A ar \in RastersAnalysed :
        LET a == ar[1]
            r == ar[2]
        IN /\ "error" \notin DOMAIN r
           /\ PositiveCells(a) # {} =>
                /\ BoundingBox(PositiveCells(a), r.data_extent)
                /\ r.reaches_edges.reaches_top = (r.data_extent.min_row = 0)
                /\ r.reaches_edges.reaches_bottom
                       = (r.data_extent.max_row = Shape(a)[1] - 1)
                /\ r.reaches_edges.reaches_left = (r.data_extent.min_col = 0)
                /\ r.reaches_edges.reaches_right
                       = (r.data_extent.max_col = Shape(a)[2] - 1)
           /\ PositiveCells(a) = {} =>
                /\ r.data_extent = Sentinel
                /\ ~r.reaches_edges.reaches_top
                /\ ~r.reaches_edges.reaches_bottom
                /\ ~r.reaches_edges.reaches_left
                /\ ~r.reaches_edges.reaches_right

\* a raster analysed that holds a NaN and no positive cell, reported in a
\* normal record with the sentinel extent
C15_Witness ==
    \E ar \in RastersAnalysed :
        /\ PositiveCells(ar[1]) = {}
        /\ \E ij \in NonZeroCells(ar[1]) : isnan(ar[1][ij[1]][ij[2]])
        /\ ar[2].data_extent = Sentinel
        /\ "error" \notin DOMAIN ar[2]

\* the four stripe flags of a record
StripeFlagsOf(r) ==
    {r.edge_patterns.top_zero_stripe, r.edge_patterns.bottom_zero_stripe,
     r.edge_patterns.left_zero_stripe, r.edge_patterns.right_zero_stripe}

\* C16: the record of a readable raster carries a boolean
\* suspicious_patterns, the OR of its four stripe flags, and is never an
\* error record; a raised flag does not stop the batch, which returns with
\* one record for every file it was to analyse
C16_SuspiciousIsOrAndOnlyData ==
    /\ \A fr \in EdgeAnalysed :
          fr[1].readable =>
             /\ "error" \notin DOMAIN fr[2]
             /\ fr[2].suspicious_patterns \in BOOLEAN
             /\ fr[2].suspicious_patterns = (TRUE \in StripeFlagsOf(fr[2]))
    /\ epc = "returned" =>
          /\ Len(edge_results.concentration) = Len(edge_input.conc_files)
          /\ edge_input.analyze_both =>
                Len(edge_results.population) = Len(edge_input.pop_files)

\* a batch that returned three records after a first file whose record
\* has suspicious_patterns raised
C16_Witness ==
    /\ epc = "returned"
    /\ Len(edge_results.concentration) = 2
    /\ Len(edge_results.population) = 1
    /\ edge_input.conc_files[1].readable
    /\ edge_results.concentration[1].suspicious_patterns
    /\ edge_input.conc_files[2].readable

(***************************************************************************)
(* geotiff_processor.py: calculate_exposure_distribution_stats and         *)
(* create_assets_json.                                                     *)
(*                                                                         *)
(* np.log and np.exp are modelled in units of ln 2 by the base-2 logarithm *)
(* and power, interpolated linearly between the powers of two: exact at    *)
(* the powers of two, increasing, and inverse to each other.               *)
(***************************************************************************)
\* most records handed to create_assets_json
MaxAssets == 2

RECURSIVE Pow2(_)
Pow2(k) == IF k <= 0 THEN 1 ELSE 2 * Pow2(k - 1)

\* the largest k with 2^k * Scale <= v (v >= Scale), counted up from k
RECURSIVE LogUp(_, _)
LogUp(v, k) == IF 2 * Pow2(k) * Scale <= v THEN LogUp(v, k + 1) ELSE k
\* the smallest j with v * 2^j >= Scale (0 < v < Scale), counted up from j
RECURSIVE LogDown(_, _)
LogDown(v, j) == IF v * Pow2(j) >= Scale THEN j ELSE LogDown(v, j + 1)

\* np.log: -inf at 0, NaN below 0
np_log(x) ==
    IF isnan(x) \/ x.kind = "ninf" THEN NaN
    ELSE IF x.kind = "pinf" THEN PosInf
    ELSE IF x.val < 0 THEN NaN
    ELSE IF x.val = 0 THEN NegInf
    ELSE IF x.val >= Scale
         THEN LET k == LogUp(x.val, 0)
              IN Fin(k * Scale + (x.val - Pow2(k) * Scale) \div Pow2(k))
    ELSE LET j == LogDown(x.val, 0)
         IN Fin((x.val * Pow2(j) - Scale) - j * Scale)

\* np.exp: 0 at -inf
np_exp(y) ==
    IF isnan(y) THEN NaN
    ELSE IF y.kind = "pinf" THEN PosInf
    ELSE IF y.kind = "ninf" THEN Zero
    ELSE LET k == y.val \div Scale
             f == y.val % Scale
         IN IF k >= 0 THEN Fin(Pow2(k) * (Scale + f))
            ELSE Fin((Scale + f) \div Pow2(-k))

\* np.sort of finite values
np_sort(a) == SortSeq(a, LAMBDA x, y : Lt(x, y))

\* np.median: the middle value, or the mean of the two middle values
np_median(a) ==
    LET s == np_sort(a)
        n == Len(a)
    IN IF n % 2 = 1 THEN s[(n + 1) \div 2]
       ELSE FDivN(FAdd(s[n \div 2], s[n \div 2 + 1]), 2)

\* np.percentile(a, q): linear interpolation between the closest ranks
np_percentile(a, q) ==
    LET s == np_sort(a)
        pos == q * (Len(a) - 1)
        lo == pos \div 100
        frac == pos % 100
    IN IF frac = 0 THEN s[lo + 1]
       ELSE Fin(s[lo + 1].val + (frac * (s[lo + 2].val - s[lo + 1].val)) \div 100)

\* a selection that keeps the zeros
non_zero_keeping_zeros(values) == SelectSeq(values, LAMBDA x : Ge(x, Zero))

\* max_exposures[max_exposures > 0]
non_zero(values) == SelectSeq(values, LAMBDA x : Gt(x, Zero))

\* the geometric mean taken without the guard on an empty selection
geometric_mean_unguarded(selected) ==
    np_exp(np_mean([i \in 1..Len(selected) |-> np_log(selected[i])]))

\* float(np.exp(np.mean(np.log(non_zero)))) if len(non_zero) > 0 else 0.0
geometric_mean(selected) ==
    IF Len(selected) > 0
    THEN np_exp(np_mean([i \in 1..Len(selected) |-> np_log(selected[i])]))
    ELSE Zero

\* the statistics shared by the two dictionaries
common_stats(values) ==
    [count |-> Len(values),
     min |-> np_min(values),
     max |-> np_max(values),
     mean |-> np_mean(values),
     median |-> np_median(values),
     std |-> np_std(values),
     geometric_mean |-> geometric_mean(non_zero(values))]

max_person_exposure_stats(values) ==
    common_stats(values)
        @@ [percentile_90 |-> np_percentile(values, 90),
            percentile_95 |-> np_percentile(values, 95),
            percentile_99 |-> np_percentile(values, 99)]

total_person_exposure_stats(values) ==
    common_stats(values) @@ [sum_all_assets |-> np_sum(values)]

\* the empty dictionary
EmptyDict == [k \in {} |-> None]

\* the records that carry person_exposure_stats
with_stats(results) ==
    SelectSeq(results, LAMBDA asset : "person_exposure_stats" \in DOMAIN asset)

calculate_exposure_distribution_stats(results) ==
    LET assets == with_stats(results)
        max_exposures ==
            [i \in 1..Len(assets) |-> assets[i].person_exposure_stats.max_person_exposure]
        total_exposures ==
            [i \in 1..Len(assets) |-> assets[i].person_exposure_stats.total_person_exposure]
    IN IF Len(max_exposures) = 0 THEN EmptyDict
       ELSE [max_person_exposure_stats |-> max_person_exposure_stats(max_exposures),
             total_person_exposure_stats |-> total_person_exposure_stats(total_exposures)]

\* a second country, and the order sorted() puts the countries in
OtherCountry == "ARG"
CountryOrder == <<OtherCountry, Country>>

\* datetime.utcnow().isoformat() + "Z"
Now == "utcnow"

create_assets_json(results) ==
    LET countries ==
            SelectSeq(CountryOrder,
                      LAMBDA c : \E i \in 1..Len(results) : results[i].country = c)
        distribution_stats == calculate_exposure_distribution_stats(results)
        metadata ==
            [processed_date |-> Now,
             total_assets |-> Len(results),
             countries |-> countries,
             data_version |-> "v2",
             script_version |-> SCRIPT_VERSION]
    IN [metadata |-> distribution_stats @@ metadata, assets |-> results]

(***************************************************************************)
(* exposure_stats_viewer.py: display_exposure_statistics.  What it prints  *)
(* is modelled by the titles of the sections printed; an exception raised  *)
(* inside its try block is caught there and ends the printing.             *)
(***************************************************************************)
\* a test that takes every section to be present
has_section_always(metadata, key) == TRUE

\* 'max_person_exposure_stats' in metadata
has_section(metadata, key) == key \in DOMAIN metadata

\* one optional section: its title, then stats = metadata[key] and its lines
print_section(metadata, key, fields) ==
    IF ~has_section(metadata, key) THEN [printed |-> <<>>, error |-> NoError]
    ELSE IF key \notin DOMAIN metadata
         THEN [printed |-> <<key>>, error |-> "KeyError"]
    ELSE IF ~(fields \subseteq DOMAIN metadata[key])
         THEN [printed |-> <<key>>, error |-> "KeyError"]
    ELSE [printed |-> <<key>>, error |-> NoError]

MaxSectionFields ==
    {"min", "max", "mean", "median", "geometric_mean",
     "percentile_90", "percentile_95", "percentile_99"}
TotalSectionFields ==
    {"min", "max", "mean", "median", "geometric_mean", "sum_all_assets", "count"}

display_exposure_statistics(file) ==
    IF file = None THEN [printed |-> <<>>, error |-> "FileNotFoundError"]
    ELSE IF "metadata" \notin DOMAIN file THEN [printed |-> <<>>, error |-> "KeyError"]
    ELSE LET metadata == file.metadata
             max_section ==
                 print_section(metadata, "max_person_exposure_stats", MaxSectionFields)
             total_section ==
                 print_section(metadata, "total_person_exposure_stats",
                               TotalSectionFields)
         IN IF max_section.error # NoError
            THEN [printed |-> <<"header">> \o max_section.printed,
                  error |-> max_section.error]
            ELSE IF total_section.error # NoError
            THEN [printed |-> <<"header">> \o max_section.printed
                                  \o total_section.printed,
                  error |-> total_section.error]
            ELSE [printed |-> <<"header">> \o max_section.printed
                                  \o total_section.printed \o <<"file">>,
                  error |-> NoError]

(***************************************************************************)
(* main of geotiff_processor.py from create_assets_json on, and the        *)
(* viewer run on the assets.json it finds.                                 *)
(***************************************************************************)
\* exposure rasters of one row, their cells powers of two or zero
StatsRasters ==
    {<< <<Whole(a), Whole(b)>> >> : a \in {0, 1, 2, 8}, b \in {0, 2}}

\* the part of an asset record the aggregator reads
StatsRecords ==
    {[asset_id |-> AssetId, country |-> Country, script_version |-> SCRIPT_VERSION,
      person_exposure_stats |-> exposure_statistics(r)] : r \in StatsRasters}
    \cup {[asset_id |-> OtherAssetId, country |-> OtherCountry,
           script_version |-> SCRIPT_VERSION]}

AssetResultLists == UNION {[1..n -> StatsRecords] : n \in 0..MaxAssets}

StatsInit ==
    /\ apc = "call"
    /\ asset_results \in AssetResultLists
    /\ assets_json = None
    /\ assets_file = None
    /\ vpc = "idle"
    /\ printed = <<>>
    /\ viewer_error = NoError
    /\ PairInit
    /\ ClassifyIdle
    /\ EdgeIdle
    /\ StripeIdle
    /\ BatchIdle
    /\ LateIdle

CreateAssetsJson ==
    /\ apc = "call"
    /\ assets_json' = create_assets_json(asset_results)
    /\ apc' = "created"
    /\ UNCHANGED <<asset_results, assets_file, vpc, printed, viewer_error>>
    /\ UNCHANGED nonStatsVars

\* json.dump(assets_json, f): what json.load reads back
WriteAssetsFile ==
    /\ apc = "created"
    /\ assets_file' = assets_json
    /\ apc' = "written"
    /\ UNCHANGED <<asset_results, assets_json, vpc, printed, viewer_error>>
    /\ UNCHANGED nonStatsVars

DisplayStatistics ==
    /\ vpc = "idle"
    /\ printed' = display_exposure_statistics(assets_file).printed
    /\ viewer_error' = display_exposure_statistics(assets_file).error
    /\ vpc' = "done"
    /\ UNCHANGED <<apc, asset_results, assets_json, assets_file>>
    /\ UNCHANGED nonStatsVars

StatsNext ==
    \/ CreateAssetsJson
    \/ WriteAssetsFile
    \/ DisplayStatistics

SpecStats == StatsInit /\ [][StatsNext]_vars

(***************************************************************************)
(* Properties of the aggregator and of the viewer (SpecStats).             *)
(***************************************************************************)
\* the value of one statistic in every record that carries the statistics
ValuesOf(field) ==
    LET carrying ==
            SelectSeq(asset_results,
                      LAMBDA asset : "person_exposure_stats" \in DOMAIN asset)
    IN [i \in 1..Len(carrying) |-> carrying[i].person_exposure_stats[field]]

Created == apc \in {"created", "written"}

\* m is a median of the values: half of them or more lie on each side
IsMedian(m, values) ==
    /\ 2 * Cardinality({i \in 1..Len(values) : Le(values[i], m)}) >= Len(values)
    /\ 2 * Cardinality({i \in 1..Len(values) : Ge(values[i], m)}) >= Len(values)

\* the summary st describes the full value set, and its geometric mean is
\* 0.0 without a positive value and lies among the positive values with one
SummaryOf(st, values) ==
    LET Positive_ == {i \in 1..Len(values) : Gt(values[i], Zero)}
    IN /\ st.count = Len(values)
       /\ \A i \in 1..Len(values) : Le(st.min, values[i]) /\ Ge(st.max, values[i])
       /\ \E i \in 1..Len(values) : st.min = values[i]
       /\ \E i \in 1..Len(values) : st.max = values[i]
       /\ st.mean = np_mean(values)
       /\ IsMedian(st.median, values)
       /\ st.std = np_std(values)
       /\ isfinite(st.geometric_mean)
       /\ Positive_ = {} => st.geometric_mean = Zero
       /\ Positive_ # {} =>
             /\ \E i \in Positive_ : Le(values[i], st.geometric_mean)
             /\ \E i \in Positive_ : Ge(values[i], st.geometric_mean)

\* C17: for the max-per-asset and the total-per-asset value sets alike the
\* logarithm is taken of the strictly positive values only; without one
\* the geometric mean is exactly 0.0, never NaN, and count, min, max, mean,
\* median and std are those of the full value set, zeros included
C17_GeometricMeanOfPositivesOnly ==
    Created /\ Len(ValuesOf("max_person_exposure")) > 0 =>
        /\ SummaryOf(assets_json.metadata.max_person_exposure_stats,
                     ValuesOf("max_person_exposure"))
        /\ SummaryOf(assets_json.metadata.total_person_exposure_stats,
                     ValuesOf("total_person_exposure"))

\* two records whose max and total are 0: geometric mean 0.0, count 2
C17_Witness ==
    /\ Created
    /\ Len(ValuesOf("max_person_exposure")) = 2
    /\ \A i \in 1..2 : ValuesOf("total_person_exposure")[i] = Zero
    /\ assets_json.metadata.max_person_exposure_stats.geometric_mean = Zero
    /\ assets_json.metadata.total_person_exposure_stats.geometric_mean = Zero
    /\ assets_json.metadata.total_person_exposure_stats.count = 2

\* C18: with no record, or only records without person_exposure_stats,
\* create_assets_json returns a metadata block of total_assets, countries
\* and the versions that lacks the two statistics keys, and the viewer
\* that finds that file prints its header and file sections and raises
\* nothing
C18_EmptySummaryIsHarmless ==
    Len(ValuesOf("max_person_exposure")) = 0 =>
        /\ Created =>
              /\ DOMAIN assets_json.metadata =
                     {"processed_date", "total_assets", "countries",
                      "data_version", "script_version"}
              /\ assets_json.metadata.total_assets = Len(asset_results)
              /\ assets_json.metadata.script_version = SCRIPT_VERSION
              /\ assets_json.assets = asset_results
        /\ vpc = "done" /\ viewer_error # "FileNotFoundError" =>
              /\ viewer_error = NoError
              /\ printed = <<"header", "file">>

\* the viewer has run on the file written for an empty list of records
C18_Witness ==
    /\ apc = "written"
    /\ vpc = "done"
    /\ asset_results = <<>>
    /\ assets_file.metadata.total_assets = 0
    /\ printed = <<"header", "file">>

(***************************************************************************)
(* geotiff_processor.py: find_asset_pairs, needs_processing,               *)
(* process_asset_pair as one call, batch_process_assets.                   *)
(*                                                                         *)
(* One country directory is modelled.  A file name is the pair of the      *)
(* asset id the filename pattern extracts from it (NoMatch when it matches *)
(* nothing) and the rest of the name.                                      *)
(***************************************************************************)
\* f"{asset_id}-v2.tiff" and f"{asset_id}-pop-v2.tiff"
ConcName(id) == <<id, "v2.tiff">>
PopName(id) == <<id, "pop-v2.tiff">>
\* another file of the asset, and a file the pattern does not match
DraftName(id) == <<id, "draft-v2.tiff">>
NotesName == <<NoMatch, "notes-v2.tiff">>

\* info['asset_id'], NoMatch where the call raises ValueError
extract_asset_info_from_filename(name) == name[1]

\* a test of the concentration file alone
conc_exists(dir, id) == ConcName(id) \in DOMAIN dir

\* os.path.exists(conc_file) and os.path.exists(pop_file)
both_exist(dir, id) == ConcName(id) \in DOMAIN dir /\ PopName(id) \in DOMAIN dir

\* the lists that hold every element of S once
Orderings(S) ==
    {q \in [1..Cardinality(S) -> S] :
        \A i, j \in 1..Cardinality(S) : i # j => q[i] # q[j]}

\* the lists find_asset_pairs can return: asset_ids is a set of strings,
\* whose order of iteration is not fixed
find_asset_pairs(dir) ==
    LET asset_ids ==
            {extract_asset_info_from_filename(name) : name \in DOMAIN dir} \ {NoMatch}
        paired == {id \in asset_ids : both_exist(dir, id)}
    IN {[k \in 1..Len(q) |-> <<Country, q[k], ConcName(q[k]), PopName(q[k])>>] :
           q \in Orderings(paired)}

\* the script versions, in the order of string comparison
VersionOrder == <<"1.0.0", SCRIPT_VERSION>>

\* no version is older than another
version_never(v, w) == FALSE

\* existing_version < SCRIPT_VERSION
version_lt(v, w) ==
    \E i, j \in 1..Len(VersionOrder) :
        VersionOrder[i] = v /\ VersionOrder[j] = w /\ i < j

\* the first record of the asset in a list of records, None without one
existing_asset_of(country, asset_id, existing) ==
    LET found ==
            SelectSeq(existing,
                      LAMBDA asset : asset.asset_id = asset_id /\ asset.country = country)
    IN IF found = <<>> THEN None ELSE found[1]

\* every asset is processed again
needs_processing_always(country, asset_id, existing, pdir) == TRUE

needs_processing(country, asset_id, existing, pdir) ==
    LET existing_asset == existing_asset_of(country, asset_id, existing)
        existing_version ==
            IF "script_version" \in DOMAIN existing_asset
            THEN existing_asset.script_version ELSE "1.0.0"
        exposure_file ==
            IF "files" \in DOMAIN existing_asset
                   /\ "person_exposure" \in DOMAIN existing_asset.files
            THEN existing_asset.files.person_exposure ELSE None
    IN IF existing_asset = None THEN TRUE
       ELSE IF version_lt(existing_version, SCRIPT_VERSION) THEN TRUE
       ELSE exposure_file # None /\ exposure_file \notin DOMAIN pdir

\* a call of process_asset_pair from its first line to its last: the
\* exception raised, or the record returned and the file written
process_asset_pair(cf, pf, save) ==
    IF load_error(cf, pf) # NoError
    THEN [error |-> load_error(cf, pf), result |-> None, written |-> EmptyDict]
    ELSE LET r == compute_person_exposure_raster(cf.data, pf.data)
             exposure_filename == exposure_filename_of(Country, cf.asset_id)
         IN [error |-> NoError,
             result |->
                 [asset_id |-> cf.asset_id,
                  country |-> Country,
                  center |-> get_asset_centerpoint(cf.transform, Shape(cf.data)),
                  total_pixels |-> Size(cf.data),
                  crs |-> cf.crs,
                  bounds |-> dataset_bounds(cf.transform, Shape(cf.data)),
                  concentration_pixel_counts |->
                      count_pixels_by_order_of_magnitude(cf.data),
                  population_pixel_counts |->
                      count_pixels_by_order_of_magnitude(pf.data),
                  person_exposure_pixel_counts |->
                      count_pixels_by_order_of_magnitude(r.person_exposure_raster),
                  person_exposure_stats |-> r.exposure_stats,
                  script_version |-> SCRIPT_VERSION,
                  files |-> [concentration |-> ConcName(cf.asset_id),
                             population |-> PopName(pf.asset_id),
                             person_exposure |->
                                 IF save THEN exposure_filename ELSE None]],
             written |->
                 IF save
                 THEN exposure_filename :>
                          [readable |-> TRUE, data |-> r.person_exposure_raster,
                           transform |-> cf.transform, crs |-> cf.crs]
                 ELSE EmptyDict]

\* load_existing_assets: [] without a file
load_existing_assets(file) == IF file = None THEN <<>> ELSE file.assets

\* a loop that a failure ends
stop_on_error(i, n) == n

\* continue: the loop goes on with the pair after the one that failed
continue_on_error(i, n) == i + 1

(***************************************************************************)
(* generate_all_overlays.py: create_overlay_for_asset, and                 *)
(* export_raw_data.py: export_raw_exposure_data.  The rasters are small:   *)
(* scale_factor and sample_rate are 1 and nothing is downsampled.          *)
(***************************************************************************)
OverlayName(country, id) == <<country, id, "overlay.png">>
RawName(country, id) == <<country, id, "raw.json">>

\* the three rasters in the order the task opens them, None when absent
task_inputs(asset_info, dir, pdir) ==
    LET exposure_path == exposure_filename_of(asset_info.country, asset_info.asset_id)
        conc_path == ConcName(asset_info.asset_id)
        pop_path == PopName(asset_info.asset_id)
    IN <<IF exposure_path \in DOMAIN pdir THEN pdir[exposure_path] ELSE None,
         IF conc_path \in DOMAIN dir THEN dir[conc_path] ELSE None,
         IF pop_path \in DOMAIN dir THEN dir[pop_path] ELSE None>>

\* all(os.path.exists(p) for p in [exposure_path, conc_path, pop_path])
all_exist(inputs) == \A k \in 1..3 : inputs[k] # None

\* the rasters the with-blocks open, up to the first that cannot be read
opened_of(inputs) ==
    IF ~inputs[1].readable THEN <<"exposure">>
    ELSE IF ~inputs[2].readable THEN <<"exposure", "concentration">>
    ELSE <<"exposure", "concentration", "population">>

\* a cell of the exposure raster that is positive and lies outside a
\* (as conc_data[i, j] raises IndexError)
index_error(exposure, a) ==
    \E i \in 1..Shape(exposure)[1], j \in 1..Shape(exposure)[2] :
        /\ Gt(exposure[i][j], Zero)
        /\ i > Shape(a)[1] \/ j > Shape(a)[2]

create_overlay_for_asset(asset_info, dir, pdir, outs) ==
    LET inputs == task_inputs(asset_info, dir, pdir)
        output_path == OverlayName(asset_info.country, asset_info.asset_id)
        none == [message |-> "", opened |-> <<>>, wrote |-> {}]
    IN IF ~all_exist(inputs) THEN [none EXCEPT !.message = "Missing files"]
       ELSE IF output_path \in outs
            THEN [none EXCEPT !.message = "Overlay already exists"]
       ELSE IF \E k \in 1..3 : ~inputs[k].readable
            THEN [none EXCEPT !.message = "Error processing",
                              !.opened = opened_of(inputs)]
       ELSE IF Le(np_max(Flatten(inputs[1].data)), Zero)
            THEN [none EXCEPT !.message = "No exposure data",
                              !.opened = opened_of(inputs)]
       ELSE IF index_error(inputs[1].data, inputs[2].data)
                   \/ index_error(inputs[1].data, inputs[3].data)
            THEN [message |-> "Error processing", opened |-> opened_of(inputs),
                  wrote |-> {output_path}]
       ELSE [message |-> "Generated", opened |-> opened_of(inputs),
             wrote |-> {output_path}]

export_raw_exposure_data(asset_info, dir, pdir, outs) ==
    LET inputs == task_inputs(asset_info, dir, pdir)
        output_path == RawName(asset_info.country, asset_info.asset_id)
        none == [message |-> "", opened |-> <<>>, wrote |-> {}]
    IN IF ~all_exist(inputs) THEN [none EXCEPT !.message = "Missing files"]
       ELSE IF output_path \in outs
            THEN [none EXCEPT !.message = "Raw data already exists"]
       ELSE IF \E k \in 1..3 : ~inputs[k].readable
            THEN [none EXCEPT !.message = "Error processing",
                              !.opened = opened_of(inputs)]
       ELSE IF Le(np_max(Flatten(inputs[1].data)), Zero)
            THEN [none EXCEPT !.message = "No exposure data",
                              !.opened = opened_of(inputs)]
       ELSE [message |-> "Exported", opened |-> opened_of(inputs),
             wrote |-> {output_path}]

(***************************************************************************)
(* The three scripts, each run on a directory tree as an earlier run of    *)
(* the processor can have left it, with files added or removed since.      *)
(***************************************************************************)
AssetIds == {AssetId, OtherAssetId}

\* the number of runs of the processor in a row
MaxRuns == 2

GoodConc(id) == RasterFile(id, BaseTransform, ScenarioConc)
GoodPop(id) == RasterFile(id, BaseTransform, ScenarioPop)
\* a population raster of another shape, and one without people
MisalignedPop(id) == RasterFile(id, BaseTransform, << <<Whole(2), Whole(3)>> >>)
EmptyPop(id) == RasterFile(id, BaseTransform, << <<Zero, Zero>>, <<Zero, Zero>> >>)
\* a population raster with people in every cell
DensePop(id) == RasterFile(id, BaseTransform, << <<Whole(2), Whole(3)>>, <<Whole(4), Whole(1)>> >>)
Unreadable(id) == [UnreadableFile EXCEPT !.asset_id = id]

\* the file a path leads to; opening a path that does not exist fails as
\* opening an unreadable file does
file_at(dir, name) == IF name \in DOMAIN dir THEN dir[name] ELSE Unreadable(name[1])

ConcChoices(id) ==
    {EmptyDict, ConcName(id) :> GoodConc(id), ConcName(id) :> Unreadable(id)}
PopChoices(id) ==
    {EmptyDict, PopName(id) :> GoodPop(id), PopName(id) :> MisalignedPop(id),
     PopName(id) :> EmptyPop(id)}
\* files that are neither the concentration nor the population raster
StrayChoices ==
    {EmptyDict,
     (DraftName(AssetId) :> GoodConc(AssetId)) @@ (NotesName :> GoodConc(NoMatch))}

InputDirs ==
    {c1 @@ p1 @@ c2 @@ p2 @@ x :
        c1 \in ConcChoices(AssetId), p1 \in PopChoices(AssetId),
        c2 \in ConcChoices(OtherAssetId), p2 \in PopChoices(OtherAssetId),
        x \in StrayChoices}

\* what an earlier run left of an asset: its record in assets.json and its
\* exposure raster in processed/
EarlierRecord(id) == process_asset_pair(GoodConc(id), GoodPop(id), TRUE).result
EarlierRaster(id) == process_asset_pair(GoodConc(id), GoodPop(id), TRUE).written
Earlier(id) ==
    {[assets |-> <<>>, pdir |-> EmptyDict],
     [assets |-> <<EarlierRecord(id)>>, pdir |-> EarlierRaster(id)],
     [assets |-> <<EarlierRecord(id)>>, pdir |-> EmptyDict],
     \* the population file had people in every cell at the time
     [assets |-> <<process_asset_pair(GoodConc(id), DensePop(id), TRUE).result>>,
      pdir |-> process_asset_pair(GoodConc(id), DensePop(id), TRUE).written]}
\* the same under the script version before this one
EarlierVersion(id) ==
    {[assets |-> <<[EarlierRecord(id) EXCEPT !.script_version = VersionOrder[1]]>>,
      pdir |-> EarlierRaster(id)]}

EarlierRuns ==
    {[assets |-> a.assets \o b.assets, pdir |-> a.pdir @@ b.pdir] :
        a \in Earlier(AssetId) \cup EarlierVersion(AssetId), b \in Earlier(OtherAssetId)}

BatchInit ==
    /\ program \in {"processor", "overlays", "export"}
    /\ input_dir \in InputDirs
    /\ \E run \in EarlierRuns :
          /\ processed_dir = run.pdir
          /\ assets_on_disk =
                 IF run.assets = <<>> THEN None ELSE create_assets_json(run.assets)
    /\ output_files \in
           {{}, {OverlayName(Country, AssetId), RawName(Country, AssetId)}}
    /\ bpc = "start"
    /\ existing_assets = <<>> /\ pairs = <<>> /\ b_i = 0
    /\ processed_assets = <<>> /\ processed_count = 0 /\ skipped_count = 0
    /\ invoked = <<>> /\ reported = <<>> /\ returned = None
    /\ tasks = EmptyDict
    /\ history = <<>>
    /\ PairInit
    /\ ClassifyIdle
    /\ EdgeIdle
    /\ StripeIdle
    /\ StatsIdle
    /\ LateIdle

\* lines 436-446: the existing assets, the pairs, the empty lists
Start(found) ==
    /\ existing_assets' = load_existing_assets(assets_on_disk)
    /\ pairs' = found
    /\ processed_assets' = <<>>
    /\ skipped_count' = 0
    /\ processed_count' = 0
    /\ b_i' = 0
    /\ bpc' = "loop"
    /\ invoked' = <<>>
    /\ reported' = <<>>
    /\ returned' = None
    /\ UNCHANGED <<program, input_dir, processed_dir, output_files, assets_on_disk,
                   tasks>>
    /\ UNCHANGED nonBatchVars

BatchStart ==
    /\ program = "processor"
    /\ bpc = "start"
    /\ \E found \in find_asset_pairs(input_dir) : Start(found)
    /\ UNCHANGED history

\* main run once more on the directories and the assets.json as the run
\* before left them
BatchRerun ==
    /\ program = "processor"
    /\ bpc = "written"
    /\ Len(history) + 1 < MaxRuns
    /\ history' = Append(history, [assets |-> returned.assets, pairs |-> pairs,
                                   reported |-> reported])
    /\ \E found \in find_asset_pairs(input_dir) : Start(found)

\* lines 448-464: one iteration of the loop over the pairs
BatchStep ==
    /\ bpc = "loop"
    /\ b_i < Len(pairs)
    /\ LET country == pairs[b_i + 1][1]
           asset_id == pairs[b_i + 1][2]
           conc_file_ == pairs[b_i + 1][3]
           pop_file_ == pairs[b_i + 1][4]
           call == process_asset_pair(file_at(input_dir, conc_file_),
                                      file_at(input_dir, pop_file_), TRUE)
       IN IF needs_processing(country, asset_id, existing_assets, processed_dir)
          THEN /\ invoked' = Append(invoked, <<conc_file_, pop_file_>>)
               /\ IF call.error = NoError
                  THEN /\ processed_assets' = Append(processed_assets, call.result)
                       /\ processed_count' = processed_count + 1
                       /\ processed_dir' = call.written @@ processed_dir
                       /\ b_i' = b_i + 1
                       /\ UNCHANGED reported
                  ELSE /\ reported' = Append(reported, <<country, asset_id, call.error>>)
                       /\ b_i' = continue_on_error(b_i, Len(pairs))
                       /\ UNCHANGED <<processed_assets, processed_count, processed_dir>>
               /\ UNCHANGED skipped_count
          ELSE /\ processed_assets' =
                      Append(processed_assets,
                             existing_asset_of(country, asset_id, existing_assets))
               /\ skipped_count' = skipped_count + 1
               /\ b_i' = b_i + 1
               /\ UNCHANGED <<invoked, reported, processed_count, processed_dir>>
    /\ UNCHANGED <<program, input_dir, output_files, assets_on_disk, bpc,
                   existing_assets, pairs, returned, tasks, history>>
    /\ UNCHANGED nonBatchVars

\* line 469: return create_assets_json(processed_assets)
BatchReturn ==
    /\ bpc = "loop"
    /\ b_i = Len(pairs)
    /\ returned' = create_assets_json(processed_assets)
    /\ bpc' = "returned"
    /\ UNCHANGED <<program, input_dir, processed_dir, output_files, assets_on_disk,
                   existing_assets, pairs, b_i, processed_assets, processed_count,
                   skipped_count, invoked, reported, tasks, history>>
    /\ UNCHANGED nonBatchVars

\* main, lines 484-486: json.dump(assets_json, f)
BatchWrite ==
    /\ bpc = "returned"
    /\ assets_on_disk' = returned
    /\ bpc' = "written"
    /\ UNCHANGED <<program, input_dir, processed_dir, output_files, existing_assets,
                   pairs, b_i, processed_assets, processed_count, skipped_count,
                   invoked, reported, returned, tasks, history>>
    /\ UNCHANGED nonBatchVars

\* the task of one asset of assets.json, run to its end
RunTask(k, outcome) ==
    /\ tasks' = (k :> outcome) @@ tasks
    /\ output_files' = output_files \cup outcome.wrote
    /\ UNCHANGED <<program, input_dir, processed_dir, assets_on_disk, bpc,
                   existing_assets, pairs, b_i, processed_assets, processed_count,
                   skipped_count, invoked, reported, returned, history>>
    /\ UNCHANGED nonBatchVars

OverlayTask ==
    /\ program = "overlays"
    /\ assets_on_disk # None
    /\ \E k \in (1..Len(assets_on_disk.assets)) \ DOMAIN tasks :
          RunTask(k, create_overlay_for_asset(assets_on_disk.assets[k], input_dir,
                                              processed_dir, output_files))

ExportTask ==
    /\ program = "export"
    /\ assets_on_disk # None
    /\ \E k \in (1..Len(assets_on_disk.assets)) \ DOMAIN tasks :
          RunTask(k, export_raw_exposure_data(assets_on_disk.assets[k], input_dir,
                                              processed_dir, output_files))

BatchNext ==
    \/ BatchStart
    \/ BatchStep
    \/ BatchReturn
    \/ BatchWrite
    \/ BatchRerun
    \/ OverlayTask
    \/ ExportTask

SpecBatch == BatchInit /\ [][BatchNext]_vars

(***************************************************************************)
(* Properties of the batch and of the tasks (SpecBatch).                   *)
(***************************************************************************)
BatchDone == bpc \in {"returned", "written"}

\* the asset ids of a list of records, and of the failures reported
IdsOf(records) == {records[k].asset_id : k \in 1..Len(records)}
ReportedIds == {reported[k][2] : k \in 1..Len(reported)}
InvokedIds == {invoked[k][1][1] : k \in 1..Len(invoked)}

\* process_asset_pair raises for the files of this asset
PairFails(id) ==
    load_error(file_at(input_dir, ConcName(id)), file_at(input_dir, PopName(id)))
        # NoError

\* C19: a failure of process_asset_pair for one asset is reported and the
\* asset is skipped; every other pair of the list is still considered and
\* processed if it needs to be, and the batch returns the assets structure
\* of the assets that succeeded or were kept
C19_FailureIsolatedPerAsset ==
    BatchDone =>
        /\ b_i = Len(pairs)
        /\ \A k \in 1..Len(pairs) :
              LET id == pairs[k][2]
              IN IF id \in InvokedIds
                 THEN IF PairFails(id)
                      THEN id \in ReportedIds /\ id \notin IdsOf(processed_assets)
                      ELSE /\ id \notin ReportedIds
                           /\ \E j \in 1..Len(processed_assets) :
                                 /\ processed_assets[j].asset_id = id
                                 /\ processed_assets[j].script_version = SCRIPT_VERSION
                 ELSE /\ ~needs_processing(Country, id, existing_assets, processed_dir)
                      /\ \E j \in 1..Len(processed_assets) :
                            processed_assets[j]
                                = existing_asset_of(Country, id, existing_assets)
        /\ returned.assets = processed_assets
        /\ returned.metadata.total_assets = processed_count + skipped_count
        /\ Len(invoked) = processed_count + Len(reported)

\* a batch returned whose first pair failed and whose second was processed
C19_Witness ==
    /\ BatchDone
    /\ Len(pairs) = 2
    /\ Len(reported) = 1
    /\ reported[1][2] = pairs[1][2]
    /\ processed_count = 1
    /\ returned.assets[1].asset_id = pairs[2][2]

\* the three inputs of the task of this asset record are on disk
InputsPresent(asset) ==
    /\ exposure_filename_of(asset.country, asset.asset_id) \in DOMAIN processed_dir
    /\ ConcName(asset.asset_id) \in DOMAIN input_dir
    /\ PopName(asset.asset_id) \in DOMAIN input_dir

\* C20: find_asset_pairs emits a tuple only for an asset whose
\* concentration file and population file both exist, process_asset_pair
\* is called for such assets only, and an overlay or export task with one
\* of its three inputs absent returns 'Missing files' and opens no raster
C20_NeverInvokedOnMissingRaster ==
    /\ \A k \in 1..Len(pairs) :
          /\ pairs[k][3] = ConcName(pairs[k][2]) /\ pairs[k][3] \in DOMAIN input_dir
          /\ pairs[k][4] = PopName(pairs[k][2]) /\ pairs[k][4] \in DOMAIN input_dir
    /\ \A k \in 1..Len(invoked) :
          invoked[k][1] \in DOMAIN input_dir /\ invoked[k][2] \in DOMAIN input_dir
    /\ \A k \in DOMAIN tasks :
          ~InputsPresent(assets_on_disk.assets[k]) =>
              /\ tasks[k].message = "Missing files"
              /\ tasks[k].opened = <<>>
              /\ tasks[k].wrote = {}

\* a batch returned for a directory that holds the concentration file of
\* one asset without its population file, and both files of the other
\* asset: process_asset_pair was called once, for the other asset
C20_Witness ==
    /\ BatchDone
    /\ ConcName(AssetId) \in DOMAIN input_dir
    /\ PopName(AssetId) \notin DOMAIN input_dir
    /\ Len(pairs) = 1
    /\ invoked = << <<ConcName(OtherAssetId), PopName(OtherAssetId)>> >>

(***************************************************************************)
(* Properties of a run of the processor after another (SpecBatch).         *)
(***************************************************************************)
\* the run before this one
PreviousRun == history[Len(history)]
AfterRerun == BatchDone /\ Len(history) >= 1

\* two lists hold the same records, each as many times
SameRecords(a, b) ==
    /\ Len(a) = Len(b)
    /\ \A k \in 1..Len(a) :
          Cardinality({j \in 1..Len(a) : a[j] = a[k]})
              = Cardinality({j \in 1..Len(b) : b[j] = a[k]})

\* C21 as stated: in a run after another on unchanged inputs,
\* needs_processing is false for every pair found, process_asset_pair is
\* called for none, and the list returned holds the records of the run
\* before
C21_SecondRunInvokesNothing ==
    AfterRerun =>
        /\ \A k \in 1..Len(pairs) :
              ~needs_processing(pairs[k][1], pairs[k][2], existing_assets,
                                processed_dir)
        /\ invoked = <<>>
        /\ SameRecords(returned.assets, PreviousRun.assets)

\* C21: in a run after another on unchanged inputs, needs_processing is
\* false for every asset the run before recorded and process_asset_pair is
\* not called for it; a pair the run before failed on has no record, is
\* processed again and fails again; nothing is processed with success and
\* the list returned holds exactly the records of the run before
C21_SecondRunKeepsRecorded ==
    AfterRerun =>
        /\ \A k \in 1..Len(pairs) :
              LET id == pairs[k][2]
              IN IF id \in IdsOf(PreviousRun.assets)
                 THEN /\ ~needs_processing(pairs[k][1], id, existing_assets,
                                           processed_dir)
                      /\ id \notin InvokedIds
                 ELSE id \in InvokedIds /\ id \in ReportedIds
        /\ processed_count = 0
        /\ skipped_count = Len(PreviousRun.assets)
        /\ SameRecords(returned.assets, PreviousRun.assets)

\* a second run that kept the records of two assets and called
\* process_asset_pair for neither
C21_Witness ==
    /\ AfterRerun
    /\ Len(pairs) = 2
    /\ skipped_count = 2
    /\ invoked = <<>>
    /\ Len(returned.assets) = 2

\* the records of the list that are of this asset
RecordsOf(records, country, id) ==
    {j \in 1..Len(records) :
        records[j].country = country /\ records[j].asset_id = id}

\* C22: the list returned holds at most one record per (country,
\* asset_id); where the existing record of a pair is of another script
\* version than SCRIPT_VERSION and the pair is processed with success, the
\* list holds a new record of SCRIPT_VERSION for the asset, the old record
\* is not in the list, and the existing records are as they were loaded
C22_OneRecordPerAssetNewReplacesOld ==
    BatchDone =>
        /\ \A j \in 1..Len(returned.assets) :
              Cardinality(RecordsOf(returned.assets, returned.assets[j].country,
                                    returned.assets[j].asset_id)) = 1
        /\ \A k \in 1..Len(existing_assets) :
              LET old == existing_assets[k]
              IN (/\ old.script_version # SCRIPT_VERSION
                  /\ \E p \in 1..Len(pairs) : pairs[p][2] = old.asset_id
                  /\ ~PairFails(old.asset_id))
                 => /\ \E j \in 1..Len(returned.assets) :
                          /\ returned.assets[j].asset_id = old.asset_id
                          /\ returned.assets[j].script_version = SCRIPT_VERSION
                    /\ \A j \in 1..Len(returned.assets) : returned.assets[j] # old
                    /\ old.asset_id \in InvokedIds
        /\ bpc = "returned" => existing_assets = load_existing_assets(assets_on_disk)

\* a batch returned that found a record of the version before this one
\* and returns a record of this version for the asset
C22_Witness ==
    /\ BatchDone
    /\ \E k \in 1..Len(existing_assets) :
          /\ existing_assets[k].script_version = VersionOrder[1]
          /\ \E j \in 1..Len(returned.assets) :
                /\ returned.assets[j].asset_id = existing_assets[k].asset_id
                /\ returned.assets[j].script_version = SCRIPT_VERSION

\* C28: an asset that has a record in the existing assets.json and whose
\* processing is reported as failed still has a record in the list returned
C28_FailedRefreshKeepsRecord ==
    BatchDone =>
        \A k \in 1..Len(existing_assets) :
            existing_assets[k].asset_id \in ReportedIds
                => existing_assets[k].asset_id \in IdsOf(returned.assets)

(***************************************************************************)
(* Properties of the overlay and export tasks (SpecBatch).                 *)
(***************************************************************************)
\* C24: a task that returns (None, message) because of an error during
\* the task has written no output file
C24_FailedTaskLeavesNoFile ==
    \A k \in DOMAIN tasks :
        tasks[k].message = "Error processing" => tasks[k].wrote = {}

(***************************************************************************)
(* generate_all_overlays.py, generate_uniform_overlays.py and              *)
(* export_raw_data.py: main, the driver that runs one task per asset of    *)
(* assets.json on a pool of worker threads.                                *)
(*                                                                         *)
(* executor.submit queues the task and the worker threads, at most         *)
(* max_workers of them, take the tasks from the queue in the order of      *)
(* submission.  as_completed, called when every task is submitted, yields  *)
(* first the futures that are finished by then, in the order of a set,     *)
(* and then each other future as it completes.                             *)
(***************************************************************************)
\* ThreadPoolExecutor(max_workers=4)
max_workers == 4

\* the number of assets of assets.json
MaxTasks == 5

\* create_uniform_overlay: as create_overlay_for_asset, without the test
\* of an overlay that exists
create_uniform_overlay(asset_info, dir, pdir, outs) ==
    LET inputs == task_inputs(asset_info, dir, pdir)
        output_path == OverlayName(asset_info.country, asset_info.asset_id)
        none == [message |-> "", opened |-> <<>>, wrote |-> {}]
    IN IF ~all_exist(inputs) THEN [none EXCEPT !.message = "Missing files"]
       ELSE IF \E k \in 1..3 : ~inputs[k].readable
            THEN [none EXCEPT !.message = "Error processing",
                              !.opened = opened_of(inputs)]
       ELSE IF Le(np_max(Flatten(inputs[1].data)), Zero)
            THEN [none EXCEPT !.message = "No exposure data",
                              !.opened = opened_of(inputs)]
       ELSE IF index_error(inputs[1].data, inputs[2].data)
                   \/ index_error(inputs[1].data, inputs[3].data)
            THEN [message |-> "Error processing", opened |-> opened_of(inputs),
                  wrote |-> {output_path}]
       ELSE [message |-> "Generated", opened |-> opened_of(inputs),
             wrote |-> {output_path}]

\* the directories the tasks of the driver read: processed/ holds the
\* exposure raster of every asset, input_geotiffs/ the two rasters of the
\* assets that are not missing
PoolProcessed(assets) ==
    [name \in {exposure_filename_of(Country, assets[k].asset_id) : k \in 1..Len(assets)}
        |-> RasterFile(name[2], BaseTransform, ScenarioConc)]
PoolInput(assets, missing) ==
    LET ids == {assets[k].asset_id : k \in 1..Len(assets)} \ missing
    IN [name \in {ConcName(id) : id \in ids} \cup {PopName(id) : id \in ids}
           |-> IF name[2] = "v2.tiff" THEN GoodConc(name[1]) ELSE GoodPop(name[1])]

\* what the task of the driver returns for an asset: (info, message), info
\* None on a failure
task_of(drv, asset, missing, assets) ==
    LET dir == PoolInput(assets, missing)
        pdir == PoolProcessed(assets)
        call == CASE drv = "overlays" -> create_overlay_for_asset(asset, dir, pdir, {})
                  [] drv = "uniform" -> create_uniform_overlay(asset, dir, pdir, {})
                  [] OTHER -> export_raw_exposure_data(asset, dir, pdir, {})
    IN [info |->
            IF call.wrote = {} \/ call.message = "Error processing" THEN None
            ELSE IF drv = "export"
                 THEN [asset_id |-> asset.asset_id, country |-> asset.country]
                 ELSE [png_file |-> OverlayName(asset.country, asset.asset_id)],
        message |-> <<call.message, asset.country, asset.asset_id>>]

\* the asset of the future taken at iteration i: the one the loop reads
\* at the index of the iteration
asset_at_iteration(assets, future, i) == assets[i]

\* future_to_asset[future]
future_to_asset(assets, future, i) == assets[future]

\* a worker takes a task whatever the number of tasks running
worker_always_free(running) == TRUE

\* a thread of the pool is idle
worker_free(running) == Cardinality(running) < max_workers

Running == {k \in 1..Len(futures) : futures[k] = "running"}
Pending == {k \in 1..Len(futures) : futures[k] = "pending"}

PoolAssets ==
    {[k \in 1..n |-> [country |-> Country, asset_id |-> k]] : n \in 1..MaxTasks}

PoolInit ==
    /\ driver \in {"overlays", "uniform", "export"}
    /\ d_assets \in PoolAssets
    /\ d_missing \in {{}, {1}, 1..Len(d_assets)}
    /\ dpc = "submit"
    /\ futures = <<>>
    /\ finished = <<>>
    /\ snapshot = {}
    /\ in_completion_order = TRUE
    /\ d_results = <<>>
    /\ d_errors = <<>>
    /\ written = None
    /\ main_error = NoError
    /\ PairInit /\ ClassifyIdle /\ EdgeIdle /\ StripeIdle /\ StatsIdle /\ BatchIdle
    /\ RepeatIdle /\ ServerIdle /\ GeorefIdle

\* executor.submit(task, asset) for the next asset of the list
Submit ==
    /\ dpc = "submit"
    /\ Len(futures) < Len(d_assets)
    /\ futures' = Append(futures, "pending")
    /\ UNCHANGED <<dpc, driver, d_assets, d_missing, finished, snapshot,
                   in_completion_order, d_results, d_errors, written, main_error>>
    /\ UNCHANGED nonPoolVars

\* an idle worker thread takes the task submitted first of those waiting
StartTask ==
    /\ Pending # {}
    /\ worker_free(Running)
    /\ LET k == CHOOSE p \in Pending : \A q \in Pending : p <= q
       IN futures' = [futures EXCEPT ![k] = "running"]
    /\ UNCHANGED <<dpc, driver, d_assets, d_missing, finished, snapshot,
                   in_completion_order, d_results, d_errors, written, main_error>>
    /\ UNCHANGED nonPoolVars

\* the task of a worker thread returns and its future is finished
FinishTask ==
    /\ \E k \in Running :
          /\ futures' = [futures EXCEPT ![k] = "finished"]
          /\ finished' = Append(finished, k)
    /\ UNCHANGED <<dpc, driver, d_assets, d_missing, snapshot,
                   in_completion_order, d_results, d_errors, written, main_error>>
    /\ UNCHANGED nonPoolVars

\* as_completed(future_to_asset), with every task submitted: the futures
\* finished by now are yielded first
BeginCollect ==
    /\ dpc = "submit"
    /\ Len(futures) = Len(d_assets)
    /\ snapshot' = {finished[j] : j \in 1..Len(finished)}
    /\ dpc' = "collect"
    /\ UNCHANGED <<driver, d_assets, d_missing, futures, finished,
                   in_completion_order, d_results, d_errors, written, main_error>>
    /\ UNCHANGED nonPoolVars

\* one iteration of the loop over as_completed, for the future it yields
CollectFuture(future) ==
    LET asset == future_to_asset(d_assets, future, Len(d_results) + 1)
        ret == task_of(driver, d_assets[future], d_missing, d_assets)
        key == IF driver = "export"
               THEN "raw_data_file" :> RawName(asset.country, asset.asset_id)
               ELSE "overlay" :> ret.info
    IN /\ IF ret.info # None
          THEN /\ d_results' = Append(d_results, key @@ asset)
               /\ UNCHANGED d_errors
          ELSE /\ d_results' = Append(d_results, asset)
               /\ d_errors' = Append(d_errors, ret.message)
       /\ finished' = SelectSeq(finished, LAMBDA f : f # future)
       /\ snapshot' = snapshot \ {future}
       /\ in_completion_order' = (in_completion_order /\ future = Head(finished))
       /\ UNCHANGED <<dpc, driver, d_assets, d_missing, futures, written, main_error>>
       /\ UNCHANGED nonPoolVars

Collect ==
    /\ dpc = "collect"
    /\ finished # <<>>
    /\ IF snapshot # {}
       THEN \E future \in snapshot : CollectFuture(future)
       ELSE CollectFuture(Head(finished))

\* assets_data['assets'] = results and json.dump, once every future is
\* yielded
WriteAssets ==
    /\ dpc = "collect"
    /\ Len(d_results) = Len(d_assets)
    /\ written' = d_results
    /\ dpc' = "summary"
    /\ UNCHANGED <<driver, d_assets, d_missing, futures, finished, snapshot,
                   in_completion_order, d_results, d_errors, main_error>>
    /\ UNCHANGED nonPoolVars

\* the summary main prints: export_raw_data divides the total size by
\* len(results) - len(errors)
Summary ==
    /\ dpc = "summary"
    /\ IF driver = "export" /\ Len(d_results) - Len(d_errors) = 0
       THEN main_error' = "ZeroDivisionError" /\ dpc' = "raised"
       ELSE main_error' = NoError /\ dpc' = "done"
    /\ UNCHANGED <<driver, d_assets, d_missing, futures, finished, snapshot,
                   in_completion_order, d_results, d_errors, written>>
    /\ UNCHANGED nonPoolVars

PoolNext ==
    \/ Submit
    \/ StartTask
    \/ FinishTask
    \/ BeginCollect
    \/ Collect
    \/ WriteAssets
    \/ Summary

SpecPool == PoolInit /\ [][PoolNext]_vars

(***************************************************************************)
(* Properties of the parallel drivers (SpecPool).                          *)
(***************************************************************************)
Collected == dpc \in {"summary", "done", "raised"}

\* the record of assets.json a result was made of
AsLoaded(res) == [country |-> res.country, asset_id |-> res.asset_id]
AttachedKey == IF driver = "export" THEN "raw_data_file" ELSE "overlay"

\* the result list holds every asset of assets.json once
EveryAssetOnce ==
    /\ Len(d_results) = Len(d_assets)
    /\ \A k \in 1..Len(d_assets) :
          Cardinality({j \in 1..Len(d_results) : AsLoaded(d_results[j]) = d_assets[k]})
              = 1

\* a result carries the entry of the driver exactly when the task of its
\* own asset produced one, and the entry is the one that task produced
OwnResultAttached ==
    \A j \in 1..Len(d_results) :
        LET res == d_results[j]
            ret == task_of(driver, AsLoaded(res), d_missing, d_assets)
        IN /\ AttachedKey \in DOMAIN res <=> ret.info # None
           /\ "overlay" \in DOMAIN res => res.overlay = ret.info
           /\ "raw_data_file" \in DOMAIN res
                  => res.raw_data_file = RawName(res.country, res.asset_id)

\* at most max_workers tasks run at a time and every asset is submitted
\* as one task
PoolBounded ==
    /\ Cardinality(Running) <= max_workers
    /\ Len(futures) <= Len(d_assets)
    /\ dpc # "submit" => Len(futures) = Len(d_assets)

\* C23 as stated: at most 4 tasks run at a time, each asset is submitted
\* as one task, and the final results list holds every asset once, in the
\* order of completion of the tasks, each with the result of its own task
C23_ResultsInCompletionOrder ==
    /\ PoolBounded
    /\ Collected => EveryAssetOnce /\ OwnResultAttached /\ in_completion_order

\* C23: at most 4 tasks run at a time, each asset is submitted as one
\* task, and for every order of completion the final results list holds
\* every asset once, in the order in which as_completed yields the
\* futures, each with the result of its own task and of no other; the list
\* written to assets.json is that list
C23_EveryAssetOnceWithOwnResult ==
    /\ PoolBounded
    /\ Collected =>
          /\ EveryAssetOnce
          /\ OwnResultAttached
          /\ written = d_results
          /\ Len(d_errors) =
                 Cardinality({j \in 1..Len(d_results) :
                                 AttachedKey \notin DOMAIN d_results[j]})

\* a driver done with more assets than workers, whose list starts with an
\* asset other than the first and holds an asset with an entry and one
\* without
C23_Witness ==
    /\ dpc = "done"
    /\ Len(d_assets) > max_workers
    /\ d_results[1].asset_id # 1
    /\ \E j \in 1..Len(d_results) : AttachedKey \in DOMAIN d_results[j]
    /\ \E j \in 1..Len(d_results) : AttachedKey \notin DOMAIN d_results[j]

\* C30: main of export_raw_data ends without an exception, whatever the
\* outcomes of the tasks
C30_ExportMainNeverRaises ==
    driver = "export" => main_error = NoError /\ dpc # "raised"

(***************************************************************************)
(* compute_person_exposure_raster called more than once by one caller, on  *)
(* the arrays it holds and, in between, on other arrays.                   *)
(***************************************************************************)
\* a function that counts the non-zero pixels of all its calls together
compute_call_accumulating(conc, pop, earlier) ==
    LET ret == compute_person_exposure_raster(conc, pop)
        before == IF earlier = <<>> THEN 0
                  ELSE earlier[Len(earlier)].exposure_stats.non_zero_pixels
    IN [ret EXCEPT !.exposure_stats.non_zero_pixels = @ + before]

\* a call after the calls `earlier`: the body reads conc_data and pop_data,
\* no global and no attribute, and calls numpy functions of its arrays only
compute_call(conc, pop, earlier) == compute_person_exposure_raster(conc, pop)

RepeatValues == {NaN, Whole(-1), Whole(0), Whole(2)}
RepeatPairs ==
    UNION {[1..s[1] -> [1..s[2] -> RepeatValues]] \X [1..s[1] -> [1..s[2] -> RepeatValues]] :
              s \in Shapes}

RepeatInit ==
    /\ rpc = "start"
    /\ \E pair \in RepeatPairs : r_conc = pair[1] /\ r_pop = pair[2]
    /\ r_returns = <<>>
    /\ PairInit /\ ClassifyIdle /\ EdgeIdle /\ StripeIdle /\ StatsIdle /\ BatchIdle
    /\ PoolIdle /\ ServerIdle /\ GeorefIdle

\* the record of a call: its arguments as passed and what it returned
Called(conc, pop) ==
    LET ret == compute_call(conc, pop, r_returns)
    IN [conc_data |-> conc, pop_data |-> pop,
        person_exposure_raster |-> ret.person_exposure_raster,
        exposure_stats |-> ret.exposure_stats,
        args |-> ret.args]

\* a call on the two arrays the caller holds, which are afterwards what
\* the call left in them
CallAgain ==
    /\ rpc \in {"start", "once", "other"}
    /\ r_returns' = Append(r_returns, Called(r_conc, r_pop))
    /\ r_conc' = Called(r_conc, r_pop).args.conc_data
    /\ r_pop' = Called(r_conc, r_pop).args.pop_data
    /\ rpc' = IF rpc = "start" THEN "once" ELSE "twice"
    /\ UNCHANGED nonRepeatVars

\* a call on other arrays in between: the pair of the worked example, or
\* the arrays of the caller the other way round
CallOther ==
    /\ rpc = "once"
    /\ \E other \in {<<ScenarioConc, ScenarioPop>>, <<r_pop, r_conc>>} :
          r_returns' = Append(r_returns, Called(other[1], other[2]))
    /\ rpc' = "other"
    /\ UNCHANGED <<r_conc, r_pop>>
    /\ UNCHANGED nonRepeatVars

RepeatNext ==
    \/ CallAgain
    \/ CallOther

SpecRepeat == RepeatInit /\ [][RepeatNext]_vars

MaxSegments == 3

\* os.getcwd() when the handler is made
Cwd == <<"srv", "app">>

\* the files of the machine: those of the application and two outside it
Files ==
    {Cwd \o <<"assets.json">>, Cwd \o <<"frontend", "index.html">>,
     <<"srv", "secret.txt">>, <<"secret.txt">>}
Prefixes(p) == {SubSeq(p, 1, n) : n \in 0..(Len(p) - 1)}
Dirs == UNION {Prefixes(f) : f \in Files}

SegmentNames == {"..", "frontend", "index.html", "assets.json", "secret.txt"}
\* a segment of the request line: its text, percent-encoded or not
RawSegments == [text : SegmentNames, encoded : BOOLEAN]
RawPaths == UNION {[1..n -> RawSegments] : n \in 0..MaxSegments}
Requests ==
    {[path |-> p, query |-> q] :
        p \in {r \in RawPaths : \A k \in 1..Len(r) : r[k].encoded = r[1].encoded},
        q \in {"", "v=1"}}

\* unquote(urlparse(self.path).path), the leading slash removed: the
\* query is dropped and every segment decoded
parsed_path(req) == [k \in 1..Len(req.path) |-> req.path[k].text]

\* the routing of do_GET: the file path handed to serve_file; the branches
\* of the prefixes frontend/, processed/, overlays/ and raw_data/ hand the
\* path over as the last branch does, with another content type
routed(path) ==
    IF path = <<>> \/ path = <<"index.html">> THEN <<"frontend", "index.html">>
    ELSE IF path = <<"assets.json">> THEN <<"assets.json">>
    ELSE IF path = <<"favicon.ico">> THEN <<"frontend", "favicon.ico">>
    ELSE path

\* os.path.join(self.directory, file_path): the segments put one after
\* the other, '..' segments kept
os_path_join(directory, file_path) == directory \o file_path

\* the file or directory the operating system finds at a path, None when
\* there is none: '..' leads to the parent of a directory
RECURSIVE os_walk(_, _)
os_walk(at, rest) ==
    IF rest = <<>> THEN (IF at \in Files \cup Dirs THEN at ELSE None)
    ELSE IF at \notin Dirs THEN None
    ELSE IF Head(rest) = ".."
         THEN os_walk(IF at = <<>> THEN at ELSE SubSeq(at, 1, Len(at) - 1), Tail(rest))
         ELSE os_walk(Append(at, Head(rest)), Tail(rest))
os_resolve(full_path) == os_walk(<<>>, full_path)

\* serve_file: 404 without a file, 200 and the content of the file, 500
\* when open fails (a directory)
serve_file(directory, file_path) ==
    LET full_path == os_path_join(directory, file_path)
        found == os_resolve(full_path)
    IN IF found = None THEN [status |-> 404, body |-> None]
       ELSE IF found \in Files THEN [status |-> 200, body |-> found]
       ELSE [status |-> 500, body |-> None]

ServerInit ==
    /\ hpc = "listening"
    /\ request = None
    /\ response = None
    /\ PairInit /\ ClassifyIdle /\ EdgeIdle /\ StripeIdle /\ StatsIdle /\ BatchIdle
    /\ PoolIdle /\ RepeatIdle /\ GeorefIdle

\* a GET request arrives
Receive ==
    /\ hpc \in {"listening", "sent"}
    /\ \E req \in Requests : request' = req
    /\ response' = None
    /\ hpc' = "received"
    /\ UNCHANGED nonServerVars

\* do_GET, to the end of serve_file
DoGet ==
    /\ hpc = "received"
    /\ response' = serve_file(Cwd, routed(parsed_path(request)))
    /\ hpc' = "sent"
    /\ UNCHANGED request
    /\ UNCHANGED nonServerVars

ServerNext ==
    \/ Receive
    \/ DoGet

SpecServer == ServerInit /\ [][ServerNext]_vars

\* the path lies in the working directory of the server
InsideCwd(p) == Len(p) > Len(Cwd) /\ SubSeq(p, 1, Len(Cwd)) = Cwd

\* C26: every response of status 200 carries the content of a file inside
\* the working directory of the server, and a request whose path leads out
\* of it is answered 404
C26_OnlyFilesInsideCwdServed ==
    hpc = "sent" =>
        /\ response.status = 200 => InsideCwd(response.body)
        /\ LET found == os_resolve(Cwd \o routed(parsed_path(request)))
           IN (found \in Files /\ ~InsideCwd(found)) => response.status = 404

(***************************************************************************)
(* The overlay generators on large rasters (SpecGeoref):                   *)
(* raster_overlay.generate_png_overlay, create_overlay_for_asset,          *)
(* create_uniform_overlay and test_overlay.create_simple_overlay.  The     *)
(* exposure raster is given by its shape and its positive cell, every      *)
(* other cell being zero; indices count from 0 as in the source.  An entry *)
(* of pixel_data carries, next to lat and lon, the index in the file of    *)
(* the sample its values are (taken_from).  Coordinates are in halves of a *)
(* unit, as in get_asset_centerpoint.                                      *)
(***************************************************************************)
\* the largest scale_factor of the rasters read
MaxScale == 2
\* the largest row and column of the positive cell
MaxPixel == 12

\* raster_overlay.py: if height > 300 or width > 300
overlay_limit == 300
\* the other generators: min(height, width) // 200
downsample_target == 200
\* raster_overlay.py: min(width, height) // 100
overlay_grid == 100
\* the other generators: min(height, width) // 50
sample_grid == 50

Generators ==
    {"raster_overlay", "generate_all_overlays", "generate_uniform_overlays",
     "test_overlay"}

\* heights and widths at which the scale factors 1..MaxScale are met
GeorefDims ==
    {downsample_target * k : k \in 1..MaxScale}
        \cup {overlay_limit * k : k \in 1..MaxScale}

GeorefRasters ==
    {[shape |-> <<h, w>>, positive |-> <<i, j>>, transform |-> BaseTransform] :
        h \in GeorefDims, w \in GeorefDims, i \in 0..MaxPixel, j \in 0..MaxPixel}

\* the scale factor of a generator for a raster of height h and width w
scale_factor_of(gen, h, w) ==
    IF gen = "raster_overlay"
    THEN IF h > overlay_limit \/ w > overlay_limit
         THEN max(h \div overlay_limit, w \div overlay_limit)
         ELSE 1
    ELSE max(1, min(h, w) \div downsample_target)

\* len(range(0, n, s))
range_len(n, s) == (n + s - 1) \div s

\* exposure_data[::scale_factor, ::scale_factor].shape
sliced_shape(shape, s) == <<range_len(shape[1], s), range_len(shape[2], s)>>

\* the index in a[::s, ::s] of the sample at p of a, None when the slice
\* leaves it out
sliced_index(p, s) ==
    IF p[1] % s = 0 /\ p[2] % s = 0 THEN <<p[1] \div s, p[2] \div s>> ELSE None

\* the index in a of the sample at q of a[::s, ::s]
slice_source(q, s) == <<q[1] * s, q[2] * s>>

sample_rate_of(gen, shape) ==
    IF gen = "raster_overlay"
    THEN max(1, min(shape[2], shape[1]) \div overlay_grid)
    ELSE max(1, min(shape[1], shape[2]) \div sample_grid)

\* rasterio.transform.xy(transform, row, col): the centre of the pixel
transform_xy(t, row, col) ==
    <<t[1] * (2 * col + 1) + t[2] * (2 * row + 1) + 2 * t[3],
      t[4] * (2 * col + 1) + t[5] * (2 * row + 1) + 2 * t[6]>>

\* the row and column a generator hands to rasterio.transform.xy for the
\* entry of index (i, j) of the downsampled data
georeferenced_pixel(gen, i, j, s) ==
    IF gen = "raster_overlay" THEN <<i, j>> ELSE <<i * s, j * s>>

\* the entries of the loops over range(0, height, sample_rate) and
\* range(0, width, sample_rate): the cells of the downsampled data visited
\* that hold exposure > 0
pixel_data_of(gen, raster, s) ==
    LET q == sliced_index(raster.positive, s)
        rate == sample_rate_of(gen, sliced_shape(raster.shape, s))
    IN IF q = None \/ q[1] % rate # 0 \/ q[2] % rate # 0
       THEN {}
       ELSE LET px == georeferenced_pixel(gen, q[1], q[2], s)
                lonlat == transform_xy(raster.transform, px[1], px[2])
            IN {[lat |-> lonlat[2], lon |-> lonlat[1], index |-> q,
                 taken_from |-> slice_source(q, s)]}

GeorefInit ==
    /\ gpc = "read"
    /\ generator \in Generators
    /\ g_raster \in {r \in GeorefRasters :
                        r.positive[1] < r.shape[1] /\ r.positive[2] < r.shape[2]}
    /\ g_scale = 0
    /\ pixel_data = None
    /\ PairInit /\ ClassifyIdle /\ EdgeIdle /\ StripeIdle /\ StatsIdle /\ BatchIdle
    /\ PoolIdle /\ RepeatIdle /\ ServerIdle

\* the three arrays are sliced
Downsample ==
    /\ gpc = "read"
    /\ g_scale' = scale_factor_of(generator, g_raster.shape[1], g_raster.shape[2])
    /\ gpc' = "downsampled"
    /\ UNCHANGED <<generator, g_raster, pixel_data>>
    /\ UNCHANGED nonGeorefVars

\* create_overlay_for_asset and create_uniform_overlay return None when the
\* downsampled data hold no exposure
early_return(gen) == gen \in {"generate_all_overlays", "generate_uniform_overlays"}

NoExposure ==
    /\ gpc = "downsampled"
    /\ early_return(generator)
    /\ sliced_index(g_raster.positive, g_scale) = None
    /\ gpc' = "skipped"
    /\ UNCHANGED <<generator, g_raster, g_scale, pixel_data>>
    /\ UNCHANGED nonGeorefVars

SavePng ==
    /\ gpc = "downsampled"
    /\ ~(early_return(generator) /\ sliced_index(g_raster.positive, g_scale) = None)
    /\ gpc' = "saved"
    /\ UNCHANGED <<generator, g_raster, g_scale, pixel_data>>
    /\ UNCHANGED nonGeorefVars

BuildPixelData ==
    /\ gpc = "saved"
    /\ pixel_data' = pixel_data_of(generator, g_raster, g_scale)
    /\ gpc' = "done"
    /\ UNCHANGED <<generator, g_raster, g_scale>>
    /\ UNCHANGED nonGeorefVars

GeorefNext ==
    \/ Downsample
    \/ NoExposure
    \/ SavePng
    \/ BuildPixelData

SpecGeoref == GeorefInit /\ [][GeorefNext]_vars

\* C29: in every generator, the lat and lon of each entry of pixel_data are
\* the coordinates of the pixel of the file its values were taken from
C29_EntriesGeoreferencedAtSource ==
    gpc = "done" =>
        \A e \in pixel_data :
            <<e.lon, e.lat>> =
                transform_xy(g_raster.transform, e.taken_from[1], e.taken_from[2])

(***************************************************************************)
(* Edge counts against the data extent (SpecEdge).                         *)
(***************************************************************************)
NoNaN(a) == \A i \in 1..Shape(a)[1], j \in 1..Shape(a)[2] : ~isnan(a[i][j])

\* C27: for a raster without NaN cells that holds a positive cell, the
\* zero count of each edge is the distance of the data extent from that
\* edge, so a reach flag is true exactly when the zero count of its edge
\* is 0, and no edge has both its reach flag and its stripe flag true
C27_EdgeCountsAgreeWithExtent ==
    \A ar \in RastersAnalysed :
        LET a == ar[1]
            r == ar[2]
            p == r.edge_patterns
        IN (NoNaN(a) /\ PositiveCells(a) # {}) =>
              /\ p.top_zero_rows = r.data_extent.min_row
              /\ p.bottom_zero_rows = Shape(a)[1] - 1 - r.data_extent.max_row
              /\ p.left_zero_cols = r.data_extent.min_col
              /\ p.right_zero_cols = Shape(a)[2] - 1 - r.data_extent.max_col
              /\ r.reaches_edges.reaches_top = (p.top_zero_rows = 0)
              /\ r.reaches_edges.reaches_bottom = (p.bottom_zero_rows = 0)
              /\ r.reaches_edges.reaches_left = (p.left_zero_cols = 0)
              /\ r.reaches_edges.reaches_right = (p.right_zero_cols = 0)
              /\ ~(r.reaches_edges.reaches_top /\ p.top_zero_stripe)
              /\ ~(r.reaches_edges.reaches_bottom /\ p.bottom_zero_stripe)
              /\ ~(r.reaches_edges.reaches_left /\ p.left_zero_stripe)
              /\ ~(r.reaches_edges.reaches_right /\ p.right_zero_stripe)

\* a raster without NaN analysed whose first row holds a negative cell and
\* no positive one, with a positive cell further down: the first row is
\* counted as a zero row and lies outside the extent
C27_Witness ==
    \E ar \in RastersAnalysed :
        /\ NoNaN(ar[1])
        /\ \E j \in 1..Shape(ar[1])[2] : Lt(ar[1][1][j], Zero)
        /\ ar[2].edge_patterns.top_zero_rows > 0
        /\ ar[2].data_extent.min_row = ar[2].edge_patterns.top_zero_rows
        /\ ~ar[2].reaches_edges.reaches_top

====
